---- MODULE Spec2Model ----
(***************************************************************************)
(* Alchemy: the detection-and-transformation core (src/lib/detector.ts)    *)
(* and the modules around it (history, share links, language).             *)
(*                                                                         *)
(* The library is mostly a set of pure functions.  The state of the model  *)
(* is the last call made on the library: which function (op), with what    *)
(* argument (arg), and what it returned or threw (ret), and the            *)
(* environment the calls read and write (env: the browser's localStorage,  *)
(* its clock, its language), which is empty for the pure functions.  There *)
(* is one action per exported function, and one specification per family   *)
(* of functions.                                                           *)
(*                                                                         *)
(* A JavaScript string is modelled as the sequence of its UTF-16 code      *)
(* units (integers); Str turns a string literal into that sequence.        *)
(* A number that does not fit TLC's 32-bit integers (an epoch in           *)
(* milliseconds) is modelled as its canonical sequence of decimal digits.  *)
(* A confidence is modelled in percent (0.85 is 85).                       *)
(***************************************************************************)
EXTENDS Integers, Sequences, FiniteSets, TLC

VARIABLES op, arg, ret, env

vars == <<op, arg, ret, env>>

Min(a, b) == IF a <= b THEN a ELSE b

Max(a, b) == IF a >= b THEN a ELSE b

(***************************************************************************)
(* Characters and strings                                                  *)
(***************************************************************************)

\* code units 32..95
AsciiLow == " !\"#$%&'()*+,-./0123456789:;<=>?@ABCDEFGHIJKLMNOPQRSTUVWXYZ[\\]^_"

\* code units 97..126
AsciiHigh == "abcdefghijklmnopqrstuvwxyz{|}~"

CharsOf(s) == {SubSeq(s, i, i) : i \in 1..Len(s)}

IndexIn(s, c) == CHOOSE i \in 1..Len(s) : SubSeq(s, i, i) = c

\* the code unit of a one-character string
Ch == [c \in CharsOf(AsciiLow) \cup CharsOf(AsciiHigh) \cup {"\n", "\t", "\r"} |->
         CASE c = "\n" -> 10
           [] c = "\t" -> 9
           [] c = "\r" -> 13
           [] c \in CharsOf(AsciiLow) -> 31 + IndexIn(AsciiLow, c)
           [] OTHER -> 96 + IndexIn(AsciiHigh, c)]

\* a string literal as a sequence of code units
Str(s) == [i \in 1..Len(s) |-> Ch[SubSeq(s, i, i)]]

Backtick == {96}

Digits == 48..57

UpperLetters == 65..90

LowerLetters == 97..122

Letters == UpperLetters \cup LowerLetters

HexDigits == Digits \cup (65..70) \cup (97..102)

\* \s of a regular expression, and what String.prototype.trim removes
\* (the code units below 128)
WhiteSpace == {9, 10, 11, 12, 13, 32}

\* \w of a regular expression
WordChars == Letters \cup Digits \cup {95}

\* the code units of the inputs: [\s\S], and the complement of a class
AnyChar == 0..255

LowerOf(c) == IF c \in UpperLetters THEN c + 32 ELSE c

UpperOf(c) == IF c \in LowerLetters THEN c - 32 ELSE c

\* both cases of every code unit of a word: one position of an /i literal
BothCases(c) == {LowerOf(c), UpperOf(c)}

\* s without its leading white space
TrimLeft(s) ==
    LET first == CHOOSE i \in 1..(Len(s) + 1) :
                    /\ i > Len(s) \/ s[i] \notin WhiteSpace
                    /\ \A k \in 1..(i - 1) : s[k] \in WhiteSpace
    IN  SubSeq(s, first, Len(s))

\* s without its trailing white space
TrimRight(s) ==
    LET last == CHOOSE i \in 0..Len(s) :
                    /\ i = 0 \/ s[i] \notin WhiteSpace
                    /\ \A k \in (i + 1)..Len(s) : s[k] \in WhiteSpace
    IN  SubSeq(s, 1, last)

\* String.prototype.trim
Trim(s) == TrimRight(TrimLeft(s))

\* s.replace(/c/g, d) for single code units
ReplaceChar(s, c, d) == [i \in 1..Len(s) |-> IF s[i] = c THEN d ELSE s[i]]

StartsWith(s, w) == Len(s) >= Len(w) /\ SubSeq(s, 1, Len(w)) = w

\* s.includes(c) for one code unit
Includes(s, c) == \E i \in 1..Len(s) : s[i] = c

\* s.split(sep) for a one-character separator
Split(s, sep) ==
    LET seps == {p \in 1..Len(s) : s[p] = sep}
        \* the position of the k-th separator; 0 and Len(s) + 1 close the ends
        at(k) == IF k = 0 THEN 0
                 ELSE IF k > Cardinality(seps) THEN Len(s) + 1
                 ELSE CHOOSE p \in seps : Cardinality({q \in seps : q < p}) = k - 1
    IN  [k \in 1..(Cardinality(seps) + 1) |-> SubSeq(s, at(k - 1) + 1, at(k) - 1)]

(***************************************************************************)
(* Regular expressions: a pattern is run as the set of positions its       *)
(* prefixes can end at (position p is "before s[p]"), so a pattern matches *)
(* exactly when the regular expression has a match, whatever the order in  *)
(* which an engine tries greedy and lazy repetitions.                      *)
(***************************************************************************)

\* one code unit of class C
MSet(s, P, C) == {p + 1 : p \in {q \in P : q <= Len(s) /\ s[q] \in C}}

\* C?
MOpt(s, P, C) == P \cup MSet(s, P, C)

\* the position after the longest run of class C that starts at p
RunEnd(s, p, C) ==
    LET stops == {q \in p..Len(s) : s[q] \notin C} \cup {Len(s) + 1}
    IN  CHOOSE q \in stops : \A k \in p..(q - 1) : s[k] \in C

\* C{lo,hi}
MRep(s, P, C, lo, hi) ==
    UNION {(p + lo)..Min(p + hi, RunEnd(s, p, C)) : p \in P}

\* C*
MStar(s, P, C) == MRep(s, P, C, 0, Len(s))

\* C+
MPlus(s, P, C) == MRep(s, P, C, 1, Len(s))

\* a literal word
MLit(s, P, w) ==
    {p + Len(w) : p \in {q \in P : q + Len(w) - 1 <= Len(s)
                                   /\ SubSeq(s, q, q + Len(w) - 1) = w}}

\* a literal word under the /i flag
MLitCI(s, P, w) ==
    {p + Len(w) : p \in {q \in P : q + Len(w) - 1 <= Len(s)
                                   /\ \A k \in 1..Len(w) :
                                        LowerOf(s[q + k - 1]) = LowerOf(w[k])}}

\* every position a match can start at (a pattern with no ^)
Anywhere(s) == 1..(Len(s) + 1)

\* $
AtEnd(s, P) == (Len(s) + 1) \in P

(***************************************************************************)
(* The environment's base64 primitive: atob (forgiving-base64 decode)      *)
(***************************************************************************)

B64Alphabet == Str("ABCDEFGHIJKLMNOPQRSTUVWXYZabcdefghijklmnopqrstuvwxyz0123456789+/")

B64Chars == {B64Alphabet[i] : i \in 1..Len(B64Alphabet)}

\* the 6-bit value of a base64 character
B64Val == [c \in B64Chars |-> (CHOOSE i \in 1..Len(B64Alphabet) : B64Alphabet[i] = c) - 1]

\* atob's first step: ASCII whitespace is removed
StripB64Space(s) == SelectSeq(s, LAMBDA c : c \notin {9, 10, 12, 13, 32})

\* its second: with a length divisible by 4, one or two trailing "=" are removed
StripB64Pad(s) ==
    IF Len(s) % 4 = 0 /\ Len(s) > 0 /\ s[Len(s)] = Ch["="]
    THEN IF s[Len(s) - 1] = Ch["="]
         THEN SubSeq(s, 1, Len(s) - 2)
         ELSE SubSeq(s, 1, Len(s) - 1)
    ELSE s

\* byte j (from 0) of the decoding of the characters d
B64Byte(d, j) ==
    LET g == 4 * (j \div 3)
        v(k) == B64Val[d[g + k]]
    IN  CASE j % 3 = 0 -> v(1) * 4 + (v(2) \div 16)
          [] j % 3 = 1 -> (v(2) % 16) * 16 + (v(3) \div 4)
          [] OTHER -> (v(3) % 4) * 64 + v(4)

\* atob(s): [ok |-> FALSE] is the InvalidCharacterError it throws
Atob(s) ==
    LET d == StripB64Pad(StripB64Space(s))
        n == (Len(d) \div 4) * 3
             + (IF Len(d) % 4 = 2 THEN 1 ELSE IF Len(d) % 4 = 3 THEN 2 ELSE 0)
    IN  IF Len(d) % 4 = 1 \/ \E i \in 1..Len(d) : d[i] \notin B64Chars
        THEN [ok |-> FALSE, s |-> <<>>]
        ELSE [ok |-> TRUE, s |-> [j \in 1..n |-> B64Byte(d, j - 1)]]

\* x.replace(/-/g, '+').replace(/_/g, '/')
FromUrlSafe(s) == ReplaceChar(ReplaceChar(s, Ch["-"], Ch["+"]), Ch["_"], Ch["/"])

(***************************************************************************)
(* The environment's JSON primitive: JSON.parse and JSON.stringify.        *)
(* A value is a record tagged by t: null, bool (b), num (n, an integer),   *)
(* str (s), arr (a, a sequence of values), obj (o, a sequence of           *)
(* <<key, value>> in insertion order); undefined is what reading a missing *)
(* property gives.  The number literals of the inputs are integers, and    *)
(* the keys of their objects are not array indices.                        *)
(***************************************************************************)

JNull == [t |-> "null"]

JUndefined == [t |-> "undefined"]

JBool(b) == [t |-> "bool", b |-> b]

JNum(n) == [t |-> "num", n |-> n]

JStr(s) == [t |-> "str", s |-> s]

JArr(a) == [t |-> "arr", a |-> a]

JObj(o) == [t |-> "obj", o |-> o]

JsonSpace == {9, 10, 13, 32}

NoParse == [ok |-> FALSE, v |-> JUndefined, p |-> 0]

Parsed(v, p) == [ok |-> TRUE, v |-> v, p |-> p]

SkipJsonSpace(s, p) == RunEnd(s, p, JsonSpace)

HexVal(c) == IF c \in Digits THEN c - 48 ELSE LowerOf(c) - 87

\* what a one-character escape stands for
JsonEscape == [c \in {34, 92, 47, 98, 102, 110, 114, 116} |->
                 CASE c = 98 -> 8 [] c = 102 -> 12 [] c = 110 -> 10
                   [] c = 114 -> 13 [] c = 116 -> 9 [] OTHER -> c]

\* the rest of a string literal, from p, after its opening quote
\* (the characters up to the next quote, backslash or control character are
\* taken in one step)
RECURSIVE ParseJsonString(_, _, _)
ParseJsonString(s, p, acc) ==
    IF p > Len(s) THEN NoParse
    ELSE IF s[p] = 34 THEN Parsed(JStr(acc), p + 1)
    ELSE IF s[p] < 32 THEN NoParse
    ELSE IF s[p] # 92
    THEN LET stops == {q \in p..Len(s) : s[q] \in {34, 92} \/ s[q] < 32}
             Upto(q) == ParseJsonString(s, q, acc \o SubSeq(s, p, q - 1))
         IN  IF stops = {} THEN NoParse
             ELSE Upto(CHOOSE q \in stops : \A r \in stops : r >= q)
    ELSE IF p + 1 > Len(s) THEN NoParse
    ELSE IF s[p + 1] \in DOMAIN JsonEscape
         THEN ParseJsonString(s, p + 2, Append(acc, JsonEscape[s[p + 1]]))
    ELSE IF s[p + 1] = 117 /\ p + 5 <= Len(s)
            /\ \A k \in 2..5 : s[p + k] \in HexDigits
         THEN ParseJsonString(s, p + 6,
                  Append(acc, HexVal(s[p + 2]) * 4096 + HexVal(s[p + 3]) * 256
                              + HexVal(s[p + 4]) * 16 + HexVal(s[p + 5])))
    ELSE NoParse

RECURSIVE DigitsValue(_)
DigitsValue(d) ==
    IF d = <<>> THEN 0
    ELSE DigitsValue(SubSeq(d, 1, Len(d) - 1)) * 10 + (d[Len(d)] - 48)

\* -?(0|[1-9][0-9]*)
ParseJsonNumber(s, p) ==
    LET q == IF s[p] = Ch["-"] THEN p + 1 ELSE p
        e == RunEnd(s, q, Digits)
    IN  IF e = q \/ (s[q] = Ch["0"] /\ e > q + 1) THEN NoParse
        ELSE Parsed(JNum((IF q > p THEN -1 ELSE 1) * DigitsValue(SubSeq(s, q, e - 1))), e)

\* obj[key] := v, a key already there keeping its place
SetMember(o, key, v) ==
    IF \E i \in 1..Len(o) : o[i][1] = key
    THEN [i \in 1..Len(o) |-> IF o[i][1] = key THEN <<key, v>> ELSE o[i]]
    ELSE Append(o, <<key, v>>)

RECURSIVE ParseJsonValue(_, _)
RECURSIVE ParseJsonElements(_, _, _)
RECURSIVE ParseJsonMembers(_, _, _)

\* the elements of an array, p at an element
ParseJsonElements(s, p, acc) ==
    LET r == ParseJsonValue(s, p)
        q == SkipJsonSpace(s, r.p)
    IN  IF ~r.ok \/ q > Len(s) THEN NoParse
        ELSE IF s[q] = Ch[","] THEN ParseJsonElements(s, q + 1, Append(acc, r.v))
        ELSE IF s[q] = Ch["]"] THEN Parsed(JArr(Append(acc, r.v)), q + 1)
        ELSE NoParse

\* the members of an object, p at a key (after optional space)
ParseJsonMembers(s, p, acc) ==
    LET k0 == SkipJsonSpace(s, p)
        k  == IF k0 <= Len(s) /\ s[k0] = 34 THEN ParseJsonString(s, k0 + 1, <<>>) ELSE NoParse
        c  == SkipJsonSpace(s, k.p)
        r  == IF k.ok /\ c <= Len(s) /\ s[c] = Ch[":"] THEN ParseJsonValue(s, c + 1) ELSE NoParse
        q  == SkipJsonSpace(s, r.p)
    IN  IF ~r.ok \/ q > Len(s) THEN NoParse
        ELSE IF s[q] = Ch[","] THEN ParseJsonMembers(s, q + 1, SetMember(acc, k.v.s, r.v))
        ELSE IF s[q] = Ch["}"] THEN Parsed(JObj(SetMember(acc, k.v.s, r.v)), q + 1)
        ELSE NoParse

\* one value, p before its leading space
ParseJsonValue(s, p) ==
    LET q == SkipJsonSpace(s, p)
        lit(w, v) == IF MLit(s, {q}, Str(w)) # {} THEN Parsed(v, q + Len(w)) ELSE NoParse
    IN  IF q > Len(s) THEN NoParse
        ELSE CASE s[q] = Ch["{"] ->
                    LET e == SkipJsonSpace(s, q + 1)
                    IN  IF e <= Len(s) /\ s[e] = Ch["}"] THEN Parsed(JObj(<<>>), e + 1)
                        ELSE ParseJsonMembers(s, q + 1, <<>>)
               [] s[q] = Ch["["] ->
                    LET e == SkipJsonSpace(s, q + 1)
                    IN  IF e <= Len(s) /\ s[e] = Ch["]"] THEN Parsed(JArr(<<>>), e + 1)
                        ELSE ParseJsonElements(s, q + 1, <<>>)
               [] s[q] = 34 -> ParseJsonString(s, q + 1, <<>>)
               [] s[q] = Ch["-"] \/ s[q] \in Digits -> ParseJsonNumber(s, q)
               [] s[q] = Ch["t"] -> lit("true", JBool(TRUE))
               [] s[q] = Ch["f"] -> lit("false", JBool(FALSE))
               [] s[q] = Ch["n"] -> lit("null", JNull)
               [] OTHER -> NoParse

\* JSON.parse(s): [ok |-> FALSE] is the SyntaxError it throws
JsonParse(s) ==
    LET r == ParseJsonValue(s, 1)
    IN  IF r.ok /\ SkipJsonSpace(s, r.p) = Len(s) + 1
        THEN [ok |-> TRUE, v |-> r.v]
        ELSE [ok |-> FALSE, v |-> JUndefined]

RECURSIVE NatDigits(_)
NatDigits(n) == IF n < 10 THEN <<48 + n>> ELSE Append(NatDigits(n \div 10), 48 + (n % 10))

\* Number.prototype.toString(10) of an integer
IntToString(n) == IF n < 0 THEN <<Ch["-"]>> \o NatDigits(-n) ELSE NatDigits(n)

HexDigitChars == Str("0123456789abcdef")

\* JSON.stringify's QuoteJSONString, one code unit
QuoteChar(c) ==
    CASE c = 34 -> Str("\\\"")
      [] c = 92 -> Str("\\\\")
      [] c = 8  -> Str("\\b")
      [] c = 12 -> Str("\\f")
      [] c = 10 -> Str("\\n")
      [] c = 13 -> Str("\\r")
      [] c = 9  -> Str("\\t")
      [] c < 32 -> Str("\\u00") \o <<HexDigitChars[(c \div 16) + 1], HexDigitChars[(c % 16) + 1]>>
      [] OTHER -> <<c>>

\* the concatenation of the sequences of ss, by halves
RECURSIVE Flatten(_)
Flatten(ss) ==
    IF ss = <<>> THEN <<>>
    ELSE IF Len(ss) = 1 THEN ss[1]
    ELSE Flatten(SubSeq(ss, 1, Len(ss) \div 2)) \o Flatten(SubSeq(ss, (Len(ss) \div 2) + 1, Len(ss)))

HighSurrogates == 55296..56319

LowSurrogates == 56320..57343

\* a surrogate with no partner at position i
IsLoneSurrogate(s, i) ==
    \/ s[i] \in HighSurrogates /\ (i = Len(s) \/ s[i + 1] \notin LowSurrogates)
    \/ s[i] \in LowSurrogates /\ (i = 1 \/ s[i - 1] \notin HighSurrogates)

\* QuoteJSONString: a lone surrogate is written as its \uXXXX escape
QuoteJson(s) ==
    LET Piece(i) ==
            IF s[i] \in HighSurrogates \cup LowSurrogates /\ IsLoneSurrogate(s, i)
            THEN Str("\\u") \o [k \in 1..4 |-> HexDigitChars[((s[i] \div (16 ^ (4 - k))) % 16) + 1]]
            ELSE QuoteChar(s[i])
    IN  <<34>> \o Flatten([i \in 1..Len(s) |-> Piece(i)]) \o <<34>>

RECURSIVE Join(_, _)
Join(ss, sep) ==
    IF ss = <<>> THEN <<>>
    ELSE IF Len(ss) = 1 THEN ss[1]
    ELSE ss[1] \o sep \o Join(Tail(ss), sep)

Spaces(n) == [i \in 1..n |-> 32]

\* JSON.stringify(v, null, gap) at indentation ind; gap = 0 is the compact form
RECURSIVE Stringify(_, _, _)
Stringify(v, gap, ind) ==
    LET open(c)  == IF gap = 0 THEN <<c>> ELSE <<c, 10>> \o Spaces(ind + gap)
        sep      == IF gap = 0 THEN <<Ch[","]>> ELSE <<Ch[","], 10>> \o Spaces(ind + gap)
        close(c) == IF gap = 0 THEN <<c>> ELSE <<10>> \o Spaces(ind) \o <<c>>
        colon    == IF gap = 0 THEN <<Ch[":"]>> ELSE <<Ch[":"], 32>>
    IN  CASE v.t = "null" -> Str("null")
          [] v.t = "bool" -> IF v.b THEN Str("true") ELSE Str("false")
          [] v.t = "num"  -> IntToString(v.n)
          [] v.t = "str"  -> QuoteJson(v.s)
          [] v.t = "arr"  ->
               IF v.a = <<>> THEN Str("[]")
               ELSE open(Ch["["])
                    \o Join([i \in 1..Len(v.a) |-> Stringify(v.a[i], gap, ind + gap)], sep)
                    \o close(Ch["]"])
          [] v.t = "obj"  ->
               IF v.o = <<>> THEN Str("{}")
               ELSE open(Ch["{"])
                    \o Join([i \in 1..Len(v.o) |->
                               QuoteJson(v.o[i][1]) \o colon
                               \o Stringify(v.o[i][2], gap, ind + gap)], sep)
                    \o close(Ch["}"])

\* value.name of a parsed value: [ok |-> FALSE] is the TypeError of reading a
\* property of null
GetProp(v, name) ==
    IF v.t \in {"null", "undefined"} THEN [ok |-> FALSE, v |-> JUndefined]
    ELSE IF v.t = "obj" /\ \E i \in 1..Len(v.o) : v.o[i][1] = name
         THEN [ok |-> TRUE, v |-> v.o[CHOOSE i \in 1..Len(v.o) : v.o[i][1] = name][2]]
         ELSE [ok |-> TRUE, v |-> JUndefined]

\* ToBoolean
Truthy(v) ==
    CASE v.t \in {"null", "undefined"} -> FALSE
      [] v.t = "bool" -> v.b
      [] v.t = "num"  -> v.n # 0
      [] v.t = "str"  -> v.s # <<>>
      [] OTHER -> TRUE

(***************************************************************************)
(* Numbers beyond 32 bits: canonical sequences of decimal digits           *)
(***************************************************************************)

RECURSIVE StripZeros(_)
StripZeros(d) == IF Len(d) > 1 /\ Head(d) = Ch["0"] THEN StripZeros(Tail(d)) ELSE d

RECURSIVE LexLeq(_, _)
LexLeq(a, b) ==
    IF a = <<>> THEN TRUE
    ELSE IF Head(a) # Head(b) THEN Head(a) < Head(b)
    ELSE LexLeq(Tail(a), Tail(b))

\* a <= b for canonical digit sequences
BigLeq(a, b) == Len(a) < Len(b) \/ (Len(a) = Len(b) /\ LexLeq(a, b))

\* n * 1000
BigTimes1000(a) == IF a = Str("0") THEN a ELSE a \o Str("000")

\* parseInt(s, 10) of a string of decimal digits
ParseDecimal(s) == StripZeros(s)

RECURSIVE RadixValue(_, _)
RadixValue(d, radix) ==
    IF d = <<>> THEN 0
    ELSE RadixValue(SubSeq(d, 1, Len(d) - 1), radix) * radix + HexVal(d[Len(d)])

(***************************************************************************)
(* The environment's decodeURIComponent                                    *)
(***************************************************************************)

IsEscapeAt(s, p) ==
    p + 2 <= Len(s) /\ s[p] = Ch["%"] /\ s[p + 1] \in HexDigits /\ s[p + 2] \in HexDigits

EscapeByte(s, p) == HexVal(s[p + 1]) * 16 + HexVal(s[p + 2])

\* the length of the UTF-8 sequence a lead byte opens (0: not a lead byte)
Utf8Length(b) ==
    CASE b \in 192..223 -> 2
      [] b \in 224..239 -> 3
      [] b \in 240..247 -> 4
      [] OTHER -> 0

\* the code point of the n escapes at p, or -1 when they are no valid UTF-8
Utf8CodePoint(s, p, n) ==
    LET b(k) == EscapeByte(s, p + 3 * k)
        wellFormed == /\ p + 3 * n - 1 <= Len(s)
                      /\ \A k \in 1..(n - 1) : IsEscapeAt(s, p + 3 * k) /\ b(k) \in 128..191
        v == CASE n = 2 -> (b(0) % 32) * 64 + (b(1) % 64)
               [] n = 3 -> (b(0) % 16) * 4096 + (b(1) % 64) * 64 + (b(2) % 64)
               [] OTHER -> (b(0) % 8) * 262144 + (b(1) % 64) * 4096
                           + (b(2) % 64) * 64 + (b(3) % 64)
        inRange == CASE n = 2 -> v >= 128
                     [] n = 3 -> v >= 2048 /\ v \notin 55296..57343
                     [] OTHER -> v \in 65536..1114111
    IN  IF wellFormed /\ inRange THEN v ELSE -1

\* a code point as UTF-16 code units
Utf16(v) ==
    IF v < 65536 THEN <<v>>
    ELSE <<55296 + ((v - 65536) \div 1024), 56320 + ((v - 65536) % 1024)>>

\* decodeURIComponent(s): [ok |-> FALSE] is the URIError it throws.  Every "%"
\* must open an escape; an escape is one ASCII byte, or the lead byte of a valid
\* UTF-8 sequence of escapes, or one of the bytes that follow such a lead byte
DecodeURIComponent(s) ==
    LET IsLeadAt(p) ==
            /\ p >= 1 /\ IsEscapeAt(s, p) /\ Utf8Length(EscapeByte(s, p)) > 0
            /\ Utf8CodePoint(s, p, Utf8Length(EscapeByte(s, p))) >= 0
        Follows(p) == \E k \in 1..3 : IsLeadAt(p - 3 * k) /\ Utf8Length(EscapeByte(s, p - 3 * k)) > k
        Decodes(p) ==
            /\ IsEscapeAt(s, p)
            /\ \/ EscapeByte(s, p) < 128
               \/ IsLeadAt(p)
               \/ EscapeByte(s, p) \in 128..191 /\ Follows(p)
        Piece(i) ==
            IF s[i] = Ch["%"]
            THEN IF EscapeByte(s, i) < 128 THEN <<EscapeByte(s, i)>>
                 ELSE IF IsLeadAt(i) THEN Utf16(Utf8CodePoint(s, i, Utf8Length(EscapeByte(s, i))))
                 ELSE <<>>
            ELSE IF (i > 1 /\ s[i - 1] = Ch["%"]) \/ (i > 2 /\ s[i - 2] = Ch["%"]) THEN <<>>
            ELSE <<s[i]>>
    IN  IF \E p \in 1..Len(s) : s[p] = Ch["%"] /\ ~Decodes(p) THEN [ok |-> FALSE, s |-> <<>>]
        ELSE [ok |-> TRUE, s |-> Flatten([i \in 1..Len(s) |-> Piece(i)])]

(***************************************************************************)
(* The detectors.  A detector returns NoResult (null) or a DetectionResult;*)
(* Threw is an exception leaving a block or a function.                    *)
(***************************************************************************)

NoResult == [hit |-> FALSE, threw |-> FALSE]

Threw == [hit |-> FALSE, threw |-> TRUE]

Result(type, confidence, raw, parsed) ==
    [hit |-> TRUE, threw |-> FALSE, type |-> type, confidence |-> confidence,
     raw |-> raw, parsed |-> parsed]

\* try { block } catch { return null }
CatchNull(block) == IF block.threw THEN NoResult ELSE block

\* a result without the optional field parsed
NoParsed == [t |-> "undefined"]

\* the complement of a character class
NotIn(C) == (0..65535) \ C

\* . of a regular expression
Dot == NotIn({10, 13, 8232, 8233})

JwtChars == Letters \cup Digits \cup {Ch["_"], Ch["-"]}

\* JWT_REGEX = /^[A-Za-z0-9_-]+\.[A-Za-z0-9_-]+\.[A-Za-z0-9_-]*$/
MatchesJwt(t) ==
    LET p1 == MPlus(t, {1}, JwtChars)
        p2 == MPlus(t, MSet(t, p1, {Ch["."]}), JwtChars)
        p3 == MStar(t, MSet(t, p2, {Ch["."]}), JwtChars)
    IN  AtEnd(t, p3)

\* JSON.parse(atob(part.replace(/-/g, '+').replace(/_/g, '/')))
DecodeJwtPart(part) ==
    LET a == Atob(FromUrlSafe(part))
    IN  IF a.ok THEN JsonParse(a.s) ELSE [ok |-> FALSE, v |-> JUndefined]

\* header.alg || header.typ; ok = FALSE is the TypeError of a null header
HeaderTest(header) ==
    LET alg == GetProp(header, Str("alg"))
        typ == GetProp(header, Str("typ"))
    IN  [ok |-> alg.ok, b |-> alg.ok /\ (Truthy(alg.v) \/ Truthy(typ.v))]

\* the try block of detectJwt
DetectJwtTry(input, trimmed) ==
    LET Tested(parts, header, payload, test) ==
            IF Len(parts) # 3 THEN NoResult
            ELSE IF ~header.ok \/ ~payload.ok THEN Threw
            ELSE IF ~test.ok THEN Threw
            ELSE IF test.b
                 THEN Result("jwt", 100, input,
                             [header |-> header.v, payload |-> payload.v,
                              signature |-> parts[3]])
                 ELSE NoResult
        Decoded(parts, header, payload) ==
            Tested(parts, header, payload, HeaderTest(header.v))
        Parts(parts) == Decoded(parts, DecodeJwtPart(parts[1]), DecodeJwtPart(parts[2]))
    IN  Parts(Split(trimmed, Ch["."]))

DetectJwtUncaught(input) ==
    IF ~MatchesJwt(Trim(input)) THEN NoResult ELSE DetectJwtTry(input, Trim(input))

DetectJwt(input) ==
    IF ~MatchesJwt(Trim(input)) THEN NoResult
    ELSE CatchNull(DetectJwtTry(input, Trim(input)))

\* UUID_REGEX = /^[0-9a-f]{8}-[0-9a-f]{4}-[0-9a-f]{4}-[0-9a-f]{4}-[0-9a-f]{12}$/i
MatchesUuid(t) ==
    LET hex(P, n) == MRep(t, P, HexDigits, n, n)
        dash(P)   == MSet(t, P, {Ch["-"]})
    IN  AtEnd(t, hex(dash(hex(dash(hex(dash(hex(dash(hex({1}, 8)), 4)), 4)), 4)), 12))

DetectUuid(input) ==
    IF MatchesUuid(Trim(input)) THEN Result("uuid", 100, input, NoParsed) ELSE NoResult

Base64MinLength == 32

Base64Chars == Letters \cup Digits \cup {Ch["+"], Ch["/"], Ch["="]}

\* BASE64_REGEX = /^[A-Za-z0-9+/=]{32,}$/
MatchesBase64(t) == AtEnd(t, MRep(t, {1}, Base64Chars, Base64MinLength, Len(t)))

\* BASE64_URL_SAFE_REGEX = /^[A-Za-z0-9_-]{32,}=*$/
MatchesBase64UrlSafe(t) ==
    AtEnd(t, MStar(t, MRep(t, {1}, JwtChars, Base64MinLength, Len(t)), {Ch["="]}))

IsPrintable(code) == (code >= 32 /\ code <= 126) \/ code = 10 \/ code = 13 \/ code = 9

PrintableCount(decoded) == Cardinality({i \in 1..Len(decoded) : IsPrintable(decoded[i])})

\* printable / decoded.length >= 0.8
AtLeastMostlyPrintable(decoded) ==
    Len(decoded) > 0 /\ PrintableCount(decoded) * 5 >= Len(decoded) * 4

\* printable / decoded.length > 0.8
MostlyPrintable(decoded) ==
    Len(decoded) > 0 /\ PrintableCount(decoded) * 5 > Len(decoded) * 4

DetectBase64(input) ==
    LET trimmed == Trim(input)
        decoded == Atob(FromUrlSafe(trimmed))
    IN  IF Len(trimmed) < Base64MinLength THEN NoResult
        ELSE IF ~MatchesBase64(trimmed) /\ ~MatchesBase64UrlSafe(trimmed) THEN NoResult
        ELSE CatchNull(IF ~decoded.ok THEN Threw
                       ELSE IF MostlyPrintable(decoded.s)
                            THEN Result("base64", 85, input, decoded.s)
                            ELSE NoResult)

\* URL_ENCODED_REGEX = /%[0-9A-Fa-f]{2}/
MatchesUrlEncoded(t) == \E p \in 1..Len(t) : IsEscapeAt(t, p)

PercentCount(t) == Cardinality({i \in 1..Len(t) : t[i] = Ch["%"]})

\* detectUrlEncoded without the count of the % characters
DetectUrlEncodedAnyCount(input) ==
    LET trimmed == Trim(input)
        decoded == DecodeURIComponent(trimmed)
    IN  IF ~MatchesUrlEncoded(trimmed) THEN NoResult
        ELSE CatchNull(IF ~decoded.ok THEN Threw
                       ELSE IF decoded.s # trimmed
                            THEN Result("url", 90, input, decoded.s)
                            ELSE NoResult)

DetectUrlEncoded(input) ==
    LET trimmed == Trim(input)
        decoded == DecodeURIComponent(trimmed)
    IN  IF ~MatchesUrlEncoded(trimmed) THEN NoResult
        ELSE IF PercentCount(trimmed) < 2 THEN NoResult
        ELSE CatchNull(IF ~decoded.ok THEN Threw
                       ELSE IF decoded.s # trimmed
                            THEN Result("url", 90, input, decoded.s)
                            ELSE NoResult)

\* /^0x[0-9A-Fa-f]+$/, /^0b[01]+$/, /^0o[0-7]+$/
MatchesPrefixed(t, prefix, digits) == AtEnd(t, MPlus(t, MLit(t, {1}, Str(prefix)), digits))

DetectNumber(input) ==
    LET trimmed == Trim(input)
        body    == SubSeq(trimmed, 3, Len(trimmed))
    IN  IF MatchesPrefixed(trimmed, "0x", HexDigits)
        THEN Result("number", 100, input, [base |-> 16, value |-> RadixValue(body, 16)])
        ELSE IF MatchesPrefixed(trimmed, "0b", {Ch["0"], Ch["1"]})
        THEN Result("number", 100, input, [base |-> 2, value |-> RadixValue(body, 2)])
        ELSE IF MatchesPrefixed(trimmed, "0o", Ch["0"]..Ch["7"])
        THEN Result("number", 100, input, [base |-> 8, value |-> RadixValue(body, 8)])
        ELSE NoResult

DetectJson(input) ==
    LET trimmed == Trim(input)
        parsed  == JsonParse(trimmed)
    IN  IF ~StartsWith(trimmed, Str("{")) /\ ~StartsWith(trimmed, Str("[")) THEN NoResult
        ELSE CatchNull(IF parsed.ok THEN Result("json", 100, input, parsed.v) ELSE Threw)

\* HEX_COLOR_REGEX = /^#([A-Fa-f0-9]{3}|[A-Fa-f0-9]{6}|[A-Fa-f0-9]{8})$/
MatchesHexColor(t) ==
    LET h == MSet(t, {1}, {Ch["#"]})
    IN  \E n \in {3, 6, 8} : AtEnd(t, MRep(t, h, HexDigits, n, n))

\* the common shape of RGB_COLOR_REGEX and HSL_COLOR_REGEX:
\* /^NAMEa?\s*\(\s*(\d{1,3})\s*,\s*(\d{1,3})%?\s*,\s*(\d{1,3})%?\s*(,\s*[\d.]+)?\s*\)$/i
\* (percent: whether the second and third components may end in %)
MatchesColorFunction(t, name, percent) ==
    LET ws(P)    == MStar(t, P, WhiteSpace)
        num(P)   == MRep(t, P, Digits, 1, 3)
        pct(P)   == IF percent THEN MOpt(t, P, {Ch["%"]}) ELSE P
        comma(P) == MSet(t, P, {Ch[","]})
        p1 == MSet(t, ws(MOpt(t, MLitCI(t, {1}, Str(name)), BothCases(Ch["a"]))), {Ch["("]})
        p2 == ws(num(ws(p1)))
        p3 == ws(pct(num(ws(comma(p2)))))
        p4 == ws(pct(num(ws(comma(p3)))))
        p5 == p4 \cup MPlus(t, ws(comma(p4)), Digits \cup {Ch["."]})
    IN  AtEnd(t, MSet(t, ws(p5), {Ch[")"]}))

DetectColor(input) ==
    LET trimmed == Trim(input)
    IN  IF MatchesHexColor(trimmed) THEN Result("color", 100, input, NoParsed)
        ELSE IF MatchesColorFunction(trimmed, "rgb", FALSE) THEN Result("color", 100, input, NoParsed)
        ELSE IF MatchesColorFunction(trimmed, "hsl", TRUE) THEN Result("color", 100, input, NoParsed)
        ELSE NoResult

\* EPOCH_REGEX = /^\d{10,13}$/
MatchesEpoch(t) == AtEnd(t, MRep(t, {1}, Digits, 10, 13))

MaxEpochSeconds == Str("4102444800")

MaxEpochMillis == Str("4102444800000")

\* detectTimestamp taking every length but 10 for milliseconds
DetectTimestampNotTen(input) ==
    LET trimmed   == Trim(input)
        num       == ParseDecimal(trimmed)
        isSeconds == Len(trimmed) = 10 /\ BigLeq(num, MaxEpochSeconds)
        isMillis  == Len(trimmed) # 10 /\ BigLeq(num, MaxEpochMillis)
    IN  IF MatchesEpoch(trimmed) /\ (isSeconds \/ isMillis)
        THEN Result("timestamp", 90, input, IF isMillis THEN num ELSE BigTimes1000(num))
        ELSE NoResult

DetectTimestamp(input) ==
    LET trimmed   == Trim(input)
        num       == ParseDecimal(trimmed)
        isSeconds == Len(trimmed) = 10 /\ BigLeq(num, MaxEpochSeconds)
        isMillis  == Len(trimmed) = 13 /\ BigLeq(num, MaxEpochMillis)
    IN  IF MatchesEpoch(trimmed) /\ (isSeconds \/ isMillis)
        THEN Result("timestamp", 90, input, IF isMillis THEN num ELSE BigTimes1000(num))
        ELSE NoResult

\* whether /word/i has a match
HasCI(t, word) == MLitCI(t, Anywhere(t), Str(word)) # {}

\* HTML_TAG_REGEX = /<\/?[a-z][\s\S]*?>/i
MatchesHtmlTag(t) ==
    LET p == MSet(t, MOpt(t, MSet(t, Anywhere(t), {Ch["<"]}), {Ch["/"]}), Letters)
    IN  MSet(t, MStar(t, p, NotIn({})), {Ch[">"]}) # {}

\* FULL_HTML_REGEX = /^[\s\S]*<[a-z][\s\S]*>[\s\S]*$/i
MatchesFullHtml(t) ==
    LET p == MSet(t, MSet(t, Anywhere(t), {Ch["<"]}), Letters)
    IN  MSet(t, MStar(t, p, NotIn({})), {Ch[">"]}) # {}

HtmlScore(t) ==
    LET hasDoctype   == HasCI(t, "<!doctype")
        hasHtmlTag   == HasCI(t, "<html")
        hasBodyTag   == HasCI(t, "<body")
        hasDivTag    == HasCI(t, "<div")
        hasParagraph == MSet(t, MLitCI(t, Anywhere(t), Str("<p")), WhiteSpace \cup {Ch[">"]}) # {}
        hasSpan      == HasCI(t, "<span")
        hasHeading   == MSet(t, MLitCI(t, Anywhere(t), Str("<h")), Ch["1"]..Ch["6"]) # {}
        indicators   == <<hasDoctype, hasHtmlTag, hasBodyTag, hasDivTag,
                          hasParagraph, hasSpan, hasHeading>>
    IN  Cardinality({i \in 1..Len(indicators) : indicators[i]})

DetectHtml(input) ==
    LET trimmed == Trim(input)
        score   == HtmlScore(trimmed)
    IN  IF ~MatchesHtmlTag(trimmed) THEN NoResult
        ELSE IF score > 0 \/ MatchesFullHtml(trimmed)
             THEN Result("html", Min(50 + score * 10, 100), input, NoParsed)
             ELSE NoResult

MinifiedMinLength == 200

\* MINIFIED_JS_REGEX = /^[^\n]{200,}.*[;{}()].*$/ and
\* MINIFIED_CSS_REGEX = /^[^\n]{200,}.*[{}:;].*$/, by their punctuation class
MatchesMinified(t, punctuation) ==
    LET p1 == MRep(t, {1}, NotIn({10}), MinifiedMinLength, Len(t))
        p2 == MSet(t, MStar(t, p1, Dot), punctuation)
    IN  AtEnd(t, MStar(t, p2, Dot))

\* /[.#]?[a-z_-]+\s*\{/i
HasCssSelectors(t) ==
    LET p == MPlus(t, MOpt(t, Anywhere(t), {Ch["."], Ch["#"]}), Letters \cup {Ch["_"], Ch["-"]})
    IN  MSet(t, MStar(t, p, WhiteSpace), {Ch["{"]}) # {}

\* /:\s*[^;]+;/
HasCssProperties(t) ==
    LET p == MStar(t, MSet(t, Anywhere(t), {Ch[":"]}), WhiteSpace)
    IN  MSet(t, MPlus(t, p, NotIn({Ch[";"]})), {Ch[";"]}) # {}

DetectCss(input) ==
    LET trimmed    == Trim(input)
        isMinified == MatchesMinified(trimmed, {Ch["{"], Ch["}"], Ch[":"], Ch[";"]})
                      /\ ~Includes(trimmed, 10)
    IN  IF HasCssSelectors(trimmed) /\ HasCssProperties(trimmed)
        THEN Result("css", IF isMinified THEN 90 ELSE 70, input, NoParsed)
        ELSE NoResult

\* /function\s*\w*\s*\(|=>\s*\{|const\s+|let\s+|var\s+/
HasFunction(t) ==
    LET all == Anywhere(t)
        ws(P) == MStar(t, P, WhiteSpace)
    IN  \/ MSet(t, ws(MStar(t, ws(MLit(t, all, Str("function"))), WordChars)), {Ch["("]}) # {}
        \/ MSet(t, ws(MLit(t, all, Str("=>"))), {Ch["{"]}) # {}
        \/ MPlus(t, MLit(t, all, Str("const")), WhiteSpace) # {}
        \/ MPlus(t, MLit(t, all, Str("let")), WhiteSpace) # {}
        \/ MPlus(t, MLit(t, all, Str("var")), WhiteSpace) # {}

\* /\)\s*\{|\}\s*\)|return\s+|if\s*\(|for\s*\(/
HasJsPatterns(t) ==
    LET all == Anywhere(t)
        ws(P) == MStar(t, P, WhiteSpace)
    IN  \/ MSet(t, ws(MSet(t, all, {Ch[")"]})), {Ch["{"]}) # {}
        \/ MSet(t, ws(MSet(t, all, {Ch["}"]})), {Ch[")"]}) # {}
        \/ MPlus(t, MLit(t, all, Str("return")), WhiteSpace) # {}
        \/ MSet(t, ws(MLit(t, all, Str("if"))), {Ch["("]}) # {}
        \/ MSet(t, ws(MLit(t, all, Str("for"))), {Ch["("]}) # {}

DetectJavaScript(input) ==
    LET trimmed    == Trim(input)
        isMinified == MatchesMinified(trimmed, {Ch[";"], Ch["{"], Ch["}"], Ch["("], Ch[")"]})
                      /\ ~Includes(trimmed, 10)
    IN  IF (HasFunction(trimmed) \/ HasJsPatterns(trimmed)) /\ isMinified
        THEN Result("javascript", 80, input, NoParsed)
        ELSE NoResult

DetectText(input) == Result("text", 50, input, NoParsed)

\* the detectors with detectHtml tried before detectJson
DetectorsHtmlEarly ==
    <<"detectJwt", "detectUuid", "detectHtml", "detectJson", "detectColor", "detectTimestamp",
      "detectNumber", "detectUrlEncoded", "detectBase64", "detectCss", "detectJavaScript">>

\* the detectors of detect, in its priority order
Detectors ==
    <<"detectJwt", "detectUuid", "detectJson", "detectColor", "detectTimestamp",
      "detectNumber", "detectUrlEncoded", "detectBase64", "detectHtml", "detectCss",
      "detectJavaScript">>

\* detector(input)
Apply(detector, input) ==
    CASE detector = "detectJwt"        -> DetectJwt(input)
      [] detector = "detectUuid"       -> DetectUuid(input)
      [] detector = "detectJson"       -> DetectJson(input)
      [] detector = "detectColor"      -> DetectColor(input)
      [] detector = "detectTimestamp"  -> DetectTimestamp(input)
      [] detector = "detectNumber"     -> DetectNumber(input)
      [] detector = "detectUrlEncoded" -> DetectUrlEncoded(input)
      [] detector = "detectBase64"     -> DetectBase64(input)
      [] detector = "detectHtml"       -> DetectHtml(input)
      [] detector = "detectCss"        -> DetectCss(input)
      [] detector = "detectJavaScript" -> DetectJavaScript(input)

\* for (const detector of detectors) { ... if (result) return result }
RECURSIVE FirstResult(_, _)
FirstResult(detectors, input) ==
    IF detectors = <<>> THEN DetectText(input)
    ELSE LET Return(result) ==
                 IF result.hit \/ result.threw THEN result
                 ELSE FirstResult(Tail(detectors), input)
         IN  Return(Apply(Head(detectors), input))

\* detect(input), input any JavaScript value: [t |-> "str", s |-> ...] a string,
\* any other tag (null, undefined, num, bool, obj) a value that is not a string
Detect(input) ==
    IF input.t # "str" \/ input.s = <<>> THEN DetectText(<<>>)
    ELSE FirstResult(Detectors, input.s)

(***************************************************************************)
(* The environment's btoa, and how an issuer makes a JWT segment           *)
(***************************************************************************)

\* character k (from 0) of the base64 encoding of the bytes b
B64Char(b, k) ==
    LET g == 3 * (k \div 4)
        byte(i) == IF g + i <= Len(b) THEN b[g + i] ELSE 0
        v == CASE k % 4 = 0 -> byte(1) \div 4
               [] k % 4 = 1 -> (byte(1) % 4) * 16 + (byte(2) \div 16)
               [] k % 4 = 2 -> (byte(2) % 16) * 4 + (byte(3) \div 64)
               [] OTHER -> byte(3) % 64
    IN  B64Alphabet[v + 1]

\* btoa(b) of a string of bytes
Btoa(b) ==
    LET n == (Len(b) * 4 + 2) \div 3
    IN  [k \in 1..(4 * ((Len(b) + 2) \div 3)) |->
            IF k <= n THEN B64Char(b, k - 1) ELSE Ch["="]]

\* base64url without padding
Base64Url(b) ==
    ReplaceChar(ReplaceChar(SelectSeq(Btoa(b), LAMBDA c : c # Ch["="]),
                            Ch["+"], Ch["-"]), Ch["/"], Ch["_"])

\* header.payload.signature
MakeJwt(header, payload, signature) ==
    Base64Url(Str(header)) \o Str(".") \o Base64Url(Str(payload)) \o Str(".") \o Str(signature)

(***************************************************************************)
(* A string for the reader of a trace (of the code units Ch knows)         *)
(***************************************************************************)

CharOf(c) == IF \E x \in DOMAIN Ch : Ch[x] = c THEN CHOOSE x \in DOMAIN Ch : Ch[x] = c ELSE "?"

RECURSIVE Show(_)
Show(s) ==
    IF s = <<>> THEN ""
    ELSE IF Len(s) = 1 THEN CharOf(s[1])
    ELSE LET half == Len(s) \div 2
         IN  Show(SubSeq(s, 1, half)) \o Show(SubSeq(s, half + 1, Len(s)))

Repeat(c, n) == [i \in 1..n |-> c]

RECURSIVE RepeatSeq(_, _)
RepeatSeq(w, n) == IF n = 0 THEN <<>> ELSE w \o RepeatSeq(w, n - 1)

(***************************************************************************)
(* detect: the inputs                                                      *)
(***************************************************************************)

MaxTimestampDigits == 14

MaxBase64Text == 12

MaxBase64Binary == 3

\* values that are not strings
NonStrings ==
    {JNull, JUndefined, JNum(0), JNum(42), JBool(FALSE), JBool(TRUE), JArr(<<>>), JObj(<<>>)}

GeneralCorpus ==
    { "", " ", " \n\t ", "hello world", "abcdefghijklmnopqrst", "a.b.c", "..",
      "123e4567-e89b-12d3-a456-426614174000", " 123E4567-E89B-42D3-A456-426614174000\n",
      "123e4567e89b12d3a456426614174000", "123e4567-e89b-12d3-a456-42661417400g",
      "{\"a\":1}", " [1,2] ", "[]", "{}", "{\"a\":", "[1,2", "{a:1}", "[1,]",
      "{\"a\":\"<div>\"}", "[\"<p>x</p>\"]", "{\"a{\":\"x: y;\"}", "\"str\"", "123", "null",
      "[\"%41%42\"]", "{\"a\":[true,null,-5,\"\\n\"]}",
      "#fff", "#FFFFFF", "#12345678", "#1234", "#12345", "#ggg", "#", "fff",
      "rgb(255,107,53)", "rgb(999,0,0)", "rgba(1,2,3,0.5)", "RGB( 1 , 2 , 3 )", "rgb(1,2)",
      "rgb(1,2,3,)", "rgb(1000,0,0)", "rgb (1,2,3)", "rgb(1,2,3,1.5.5)", "rgb(-1,2,3)",
      "hsl(120,50%,50%)", "hsla(0, 100%, 50%, .5)", "hsl(120,50,50)", "HSL(360 , 100% , 100% )",
      "hsl(120%,50%,50%)", "rgb(1,2%,3)",
      "0xFF", "0x", "0b1010", "0b2", "0o17", "0o8", "0XFF", " 0x1f ", "0x1G", "0b", "ff",
      "a%20b%20c", "a%20b", "%41%42", "%%20", "100%25%", "%E4%B8%AD", "%C0%80", "%E4%B8",
      "<p>%20%20</p>", "a%2", "%20%2G", "50% and 60%", "%ED%A0%80", "%F0%9F%98%80",
      "a{b:%3A%3B;}",
      "<div>hi</div>", "</a>", "<a>x", "a < b > c", "<1>", "<p>", "<pre>", "<H3>", "<h7>",
      "<!DOCTYPE html><html><body><div><p>x</p><span></span><h1></h1></div></body></html>",
      "<style>a{b:c;}</style>", "<!doctype>", "x</div>",
      "a{b:c;}", ".x { color: red; }", "a{b:c}", "#id{a:b;}", "{a:b;}", "a:b; c{", "a{b:;}",
      "function f(){return 1;}", "const x = 1;", "if(x){}" }

\* inputs of more than 200 characters
LongCorpus ==
    LET a(n) == Repeat(Ch["a"], n)
    IN  { a(MinifiedMinLength) \o Str("function f(){return 1;}"),
          Str("if(x)") \o a(MinifiedMinLength - 5) \o Str(";"),
          Str("if(x)") \o a(MinifiedMinLength - 6) \o Str(";"),
          Str("if(x);") \o a(MinifiedMinLength),
          a(MinifiedMinLength) \o Str(";"),
          a(MinifiedMinLength) \o Str("\nreturn x;"),
          a(MinifiedMinLength) \o Str("return x;\n}"),
          Str("let x=1;") \o a(MinifiedMinLength) \o Str(")"),
          a(MinifiedMinLength) \o Str("a{b:c;}"),
          a(MinifiedMinLength) \o Str("function f(){return 1;}a{b:c;}"),
          a(MinifiedMinLength) \o Str("<div>if(x){}</div>"),
          a(MinifiedMinLength) \o Str("a{b:c;}\n"),
          Str("a{b:c;}\n") \o a(MinifiedMinLength) \o Str(";"),
          a(MinifiedMinLength + 20) }

\* digit strings: two leading digits, then one digit repeated
TimestampFamily ==
    { <<d1, d2>> \o Repeat(fill, n - 2) :
        d1 \in Digits, d2 \in Digits, fill \in {Ch["0"], Ch["9"]},
        n \in 9..MaxTimestampDigits }

TimestampCorpus ==
    { "1700000000", "1700000000000", "99999999999999", "4102444800", "4102444801",
      "4102444799", "4102444800000", "4102444800001", "4102444799999", "0000000000",
      "0000000000000", "0000000001", " 1700000000 ", "17000000000", "170000000000",
      "1700000000.5", "170000000a", "-1700000000", "+1700000000", "4102444800 000" }

\* 4 characters decoding to 3 printable bytes, and to 3 bytes that are not
Base64Text == Str("YWFh")

Base64Binary == Str("AAAA")

Base64Tails ==
    { "", "YQ", "AA", "YWE", "YQA", "AAA", "Y", "YQ==", "YWE=", "=", "-_", "+/", "+-",
      "=AAA", "YQ=", "Y Q" }

Base64Family ==
    { RepeatSeq(Base64Text, a) \o RepeatSeq(Base64Binary, b) \o Str(tail) :
        a \in 0..MaxBase64Text, b \in 0..MaxBase64Binary, tail \in Base64Tails }

JwtHeaders ==
    { "{\"alg\":\"HS256\",\"typ\":\"JWT\"}", "{\"alg\":\"none\"}", "{\"typ\":\"JWT\"}",
      "{\"alg\":\"\"}", "{\"alg\":0}", "{\"alg\":null}", "{\"alg\":false,\"typ\":\"\"}",
      "{\"alg\":\"\",\"typ\":\"JWT\"}", "{\"alg\":1}", "{\"typ\":[]}", "{}", "{\"kid\":\"1\"}",
      "null", "1", "\"alg\"", "[\"alg\"]", "true", "{alg}", "{\"alg\":\"HS256\"", "" }

JwtPayloads ==
    { "{}", "{\"sub\":\"x\",\"exp\":0}", "{\"exp\":1700000000}", "null", "[]", "7", "{x", "" }

JwtCorpus ==
    { "e30.e30", "a.e30.x", "e30.a.x", "e30..x", "e30.e30.x.y", "e30.e3=.x",
      "eyJhbGciOjF9.e30", " eyJhbGciOjF9.e30.sig ", "eyJhbGciOjF9.e30.s+g",
      "eyJhbGciOjF9abcde.e30.x" }

JwtFamily ==
    { MakeJwt(h, p, sig) : h \in JwtHeaders, p \in JwtPayloads, sig \in {"", "c2ln"} }

DetectInputs ==
    NonStrings
    \cup {JStr(Str(s)) : s \in GeneralCorpus \cup TimestampCorpus \cup JwtCorpus}
    \cup {JStr(s) : s \in LongCorpus \cup TimestampFamily \cup Base64Family \cup JwtFamily}

(***************************************************************************)
(* detect: the specification                                               *)
(***************************************************************************)

\* the argument of a call, with its text for the reader
Shown(v) == [value |-> v, text |-> IF v.t = "str" THEN Show(v.s) ELSE v.t]

\* before the call: the caller holds an input
InitDetect ==
    /\ op = "input"
    /\ arg \in {Shown(input) : input \in DetectInputs}
    /\ ret = <<>>
    /\ env = <<>>

CallDetect ==
    /\ op = "input"
    /\ op' = "detect"
    /\ ret' = Detect(arg.value)
    /\ UNCHANGED <<arg, env>>

NextDetect == CallDetect

SpecDetect == InitDetect /\ [][NextDetect]_vars

(***************************************************************************)
(* detect: properties                                                      *)
(***************************************************************************)

DetectedType ==
    {"json", "html", "color", "timestamp", "css", "javascript", "text", "image", "base64",
     "url", "jwt", "number", "uuid"}

\* the call of detect on a non-empty string has returned or thrown
DetectedString == op = "detect" /\ arg.value.t = "str" /\ arg.value.s # <<>>

\* C1: detect is total. Whatever the input value, detect returns, without throwing,
\* a result whose type is one of the 13 DetectedType tags; for the empty string and
\* for a value that is not a string the result is 'text' with confidence 0.5.
C1_DetectTotal ==
    op = "detect" =>
        /\ ~ret.threw
        /\ ret.hit
        /\ ret.type \in DetectedType
        /\ (arg.value.t # "str" \/ arg.value.s = <<>>) =>
               ret.type = "text" /\ ret.confidence = 50

\* detect has answered 'text' with confidence 0.5 for a value that is not a string
C1_Witness_NonString ==
    /\ op = "detect"
    /\ arg.value.t \notin {"str", "null", "undefined"}
    /\ ret.type = "text" /\ ret.confidence = 50

\* the order of the detectors as documented
ClaimedOrder ==
    <<"detectJwt", "detectUuid", "detectJson", "detectColor", "detectTimestamp",
      "detectNumber", "detectUrlEncoded", "detectBase64", "detectHtml", "detectCss",
      "detectJavaScript">>

\* the places in the documented order of the detectors that accept the input
Accepting(input) == {i \in 1..Len(ClaimedOrder) : Apply(ClaimedOrder[i], input).hit}

\* C2: detector precedence. For a non-empty input detect returns the result of the
\* first detector, in the order JWT, UUID, JSON, Color, Timestamp, Number,
\* URL-encoded, Base64, HTML, CSS, JavaScript, that accepts it, and 'text' only
\* when none accepts; no later detector's result is returned when an earlier one
\* accepts.
C2_Precedence ==
    DetectedString =>
        LET accepting == Accepting(arg.value.s)
        IN  /\ accepting = {} <=> ret.type = "text"
            /\ \A i \in accepting :
                   (\A j \in accepting : i <= j) => ret = Apply(ClaimedOrder[i], arg.value.s)

\* two detectors accept the input (JSON and HTML both do) and detect has answered
C2_Witness_TwoAccept ==
    /\ DetectedString
    /\ {3, 9} \subseteq Accepting(arg.value.s)
    /\ ret.type = "json"

\* the string is made of ASCII digits only
AllDigits(t) == t # <<>> /\ \A i \in 1..Len(t) : t[i] \in Digits

\* the digits, of the length given, of a number that is at most the limit
WithinLimit(t, limit) == AllDigits(t) /\ Len(t) = Len(limit) /\ LexLeq(t, limit)

\* C4: timestamp detection. The timestamp detector accepts a trimmed input exactly
\* when it is 10 digits with a value in [0, 4102444800] or 13 digits with a value
\* in [0, 4102444800000]; the parsed value is the epoch in milliseconds; a string of
\* 11, 12, 14 or more digits, or one out of range, is never classified 'timestamp'.
C4_TimestampRange ==
    DetectedString =>
        LET t       == Trim(arg.value.s)
            seconds == WithinLimit(t, Str("4102444800"))
            millis  == WithinLimit(t, Str("4102444800000"))
        IN  /\ DetectTimestamp(arg.value.s).hit <=> (seconds \/ millis)
            /\ ret.type = "timestamp" <=> (seconds \/ millis)
            /\ seconds => ret.parsed = StripZeros(StripZeros(t) \o Str("000"))
            /\ millis => ret.parsed = StripZeros(t)

\* a 10-digit input at the upper limit was classified, its seconds turned into milliseconds
C4_Witness_UpperLimit ==
    /\ DetectedString
    /\ arg.value.s = Str("4102444800")
    /\ ret.type = "timestamp"
    /\ ret.parsed = Str("4102444800000")

\* the value is an object with a field of this name
HasField(v, name) == v.t = "obj" /\ \E k \in 1..Len(v.o) : v.o[k][1] = Str(name)

\* the three segments of a token, each base64url, the first two not empty
JwtSegments(t) ==
    LET parts == Split(t, Ch["."])
    IN  /\ Len(parts) = 3
        /\ parts[1] # <<>> /\ parts[2] # <<>>
        /\ \A k \in 1..3 : \A i \in 1..Len(parts[k]) : parts[k][i] \in JwtChars

\* C5: JWT detection. An input of three dot-separated base64url segments whose first
\* two decode to valid JSON and whose header has an alg or a typ field, whatever the
\* field's value, is classified 'jwt'; when a segment does not decode or parse, the
\* JWT detector gives no result, raises nothing, and detection falls through.
C5_JwtWheneverHeaderHasField ==
    (DetectedString /\ JwtSegments(Trim(arg.value.s))) =>
        LET parts   == Split(Trim(arg.value.s), Ch["."])
            header  == DecodeJwtPart(parts[1])
            payload == DecodeJwtPart(parts[2])
        IN  IF header.ok /\ payload.ok
            THEN (HasField(header.v, "alg") \/ HasField(header.v, "typ")) => ret.type = "jwt"
            ELSE ~ret.threw /\ ret.type # "jwt" /\ DetectJwt(arg.value.s) = NoResult

\* C6 as amended: the Base64 detector accepts a trimmed input exactly when its length
\* is at least 32, it matches the standard or the URL-safe pattern, it decodes, and
\* strictly more than 80% of the decoded bytes are printable ASCII or tab, LF, CR; an
\* input of fewer than 32 characters is never classified 'base64'.
C6_Base64MoreThan80 ==
    DetectedString =>
        LET t        == Trim(arg.value.s)
            decoded  == Atob(FromUrlSafe(t))
            accepted == /\ Len(t) >= 32
                        /\ MatchesBase64(t) \/ MatchesBase64UrlSafe(t)
                        /\ decoded.ok
                        /\ PrintableCount(decoded.s) * 100 > 80 * Len(decoded.s)
        IN  /\ DetectBase64(arg.value.s).hit <=> accepted
            /\ ret.type = "base64" => Len(t) >= 32

\* C6: the Base64 detector accepts a trimmed input exactly when its length is at
\* least 32, it matches the standard or the URL-safe pattern, it decodes, and at
\* least 80% of the decoded bytes are printable (exactly 80% is accepted); an input
\* of fewer than 32 characters is never classified 'base64'.
C6_Base64AtLeast80 ==
    DetectedString =>
        LET t        == Trim(arg.value.s)
            decoded  == Atob(FromUrlSafe(t))
            accepted == /\ Len(t) >= 32
                        /\ MatchesBase64(t) \/ MatchesBase64UrlSafe(t)
                        /\ decoded.ok
                        /\ PrintableCount(decoded.s) * 100 >= 80 * Len(decoded.s)
        IN  /\ DetectBase64(arg.value.s).hit <=> accepted
            /\ ret.type = "base64" => Len(t) >= 32

\* an input that decodes to more than 80% but less than 100% printable bytes was
\* classified 'base64'
C6_Witness_AboveThreshold ==
    /\ DetectedString
    /\ ret.type = "base64"
    /\ PrintableCount(ret.parsed) < Len(ret.parsed)

(***************************************************************************)
(* beautifyJs                                                              *)
(***************************************************************************)

\* w.repeat(count): a negative count is a RangeError
StringRepeat(w, count) ==
    IF count < 0 THEN [ok |-> FALSE, s |-> <<>>]
    ELSE [ok |-> TRUE, s |-> RepeatSeq(w, count)]

JsQuotes == {Ch["\""], Ch["'"]} \cup Backtick

\* result.replace(/\n +\n/g, '\n'), from position p on
RECURSIVE DropBlankLines(_, _)
DropBlankLines(s, p) ==
    IF p > Len(s) THEN <<>>
    ELSE LET q == RunEnd(s, p + 1, {Ch[" "]})
         IN  IF s[p] = Ch["\n"] /\ q > p + 1 /\ q <= Len(s) /\ s[q] = Ch["\n"]
             THEN <<Ch["\n"]>> \o DropBlankLines(s, q + 1)
             ELSE <<s[p]>> \o DropBlankLines(s, p + 1)

\* result.replace(/\n{3,}/g, '\n\n'), from position p on
RECURSIVE SqueezeNewlines(_, _)
SqueezeNewlines(s, p) ==
    IF p > Len(s) THEN <<>>
    ELSE LET q == RunEnd(s, p, {Ch["\n"]})
         IN  IF q - p >= 3
             THEN <<Ch["\n"], Ch["\n"]>> \o SqueezeNewlines(s, q)
             ELSE <<s[p]>> \o SqueezeNewlines(s, p + 1)

\* the clean-up and the return of beautifyJs
CleanUpJs(result) == Trim(SqueezeNewlines(DropBlankLines(result, 1), 1))

\* the loop of beautifyJs from index i (from 1) on; threw is the RangeError of
\* '  '.repeat with a negative count
RECURSIVE ScanJs(_, _, _, _, _, _)
ScanJs(js, i, indent, result, inString, stringChar) ==
    IF i > Len(js) THEN [threw |-> FALSE, s |-> CleanUpJs(result)]
    ELSE LET char == js[i]
             prev == IF i > 1 THEN js[i - 1] ELSE 0
             Next(newIndent, added) ==
                 IF ~added.ok THEN [threw |-> TRUE, s |-> <<>>]
                 ELSE ScanJs(js, i + 1, newIndent, result \o added.s, inString, stringChar)
             Added(s) == [ok |-> TRUE, s |-> s]
             Indented(before, after, count) ==
                 [ok |-> StringRepeat(Str("  "), count).ok,
                  s  |-> before \o StringRepeat(Str("  "), count).s \o after]
         IN  IF char \in JsQuotes /\ prev # Ch["\\"]
             THEN ScanJs(js, i + 1, indent, result \o <<char>>,
                         IF ~inString THEN TRUE ELSE char # stringChar,
                         IF ~inString THEN char ELSE stringChar)
             ELSE IF inString THEN Next(indent, Added(<<char>>))
             ELSE IF char \in {Ch["{"], Ch["["]}
                  THEN Next(indent + 1, Indented(<<char, Ch["\n"]>>, <<>>, indent + 1))
             ELSE IF char \in {Ch["}"], Ch["]"]}
                  THEN Next(indent - 1, Indented(<<Ch["\n"]>>, <<char>>, indent - 1))
             ELSE IF char = Ch[";"]
                  THEN Next(indent, Indented(Str(";\n"), <<>>, indent))
             ELSE IF char = Ch[","]
                  THEN Next(indent, Indented(Str(",\n"), <<>>, indent))
             ELSE Next(indent, Added(<<char>>))

\* beautifyJs(input)
BeautifyJs(input) == ScanJs(Trim(input), 1, 0, <<>>, FALSE, 0)

MaxJsLength == 4

JsAlphabet == {Ch[c] : c \in {"{", "}", "[", "]", ";", ",", "\"", "'", "\\", "a", "\n"}}

RECURSIVE StringsUpTo(_, _)
StringsUpTo(alphabet, n) ==
    IF n = 0 THEN {<<>>}
    ELSE LET shorter == StringsUpTo(alphabet, n - 1)
         IN  shorter \cup {s \o <<c>> : s \in shorter, c \in alphabet}

JsInputs == StringsUpTo(JsAlphabet, MaxJsLength)

InitBeautify ==
    /\ op = "input"
    /\ arg \in {Shown(JStr(s)) : s \in JsInputs}
    /\ ret = <<>>
    /\ env = <<>>

CallBeautifyJs ==
    /\ op = "input"
    /\ op' = "beautifyJs"
    /\ ret' = BeautifyJs(arg.value.s)
    /\ UNCHANGED <<arg, env>>

NextBeautify == CallBeautifyJs

SpecBeautify == InitBeautify /\ [][NextBeautify]_vars

\* C3: beautifyJs never faults. For every input string, also one with more closing
\* '}' or ']' than opening '{' or '[' outside string literals, the scanner runs to
\* the end of the input and returns a string.
C3_BeautifyJsNeverFaults == op = "beautifyJs" => ~ret.threw

(***************************************************************************)
(* parseJwt                                                                *)
(***************************************************************************)

NaN == [t |-> "nan"]

\* ToNumber of a parsed JSON value that is no array and no object
ToNumber(v) ==
    CASE v.t = "num"  -> v
      [] v.t = "null" -> JNum(0)
      [] v.t = "bool" -> JNum(IF v.b THEN 1 ELSE 0)
      [] v.t = "str" /\ \A i \in 1..Len(v.s) : v.s[i] \in Digits -> JNum(DigitsValue(v.s))
      [] OTHER -> NaN

\* a * b of two numbers
Times(a, b) == IF a.t = "nan" \/ b.t = "nan" THEN NaN ELSE JNum(a.n * b.n)

\* a > b of two numbers
Greater(a, b) == a.t # "nan" /\ b.t # "nan" /\ a.n > b.n

\* the try block of parseJwt; now is what Date.now() returns
ParseJwtTry(token, now) ==
    LET Expiry(payload, exp, iat) ==
            [expiresAt |-> IF Truthy(exp) THEN Times(ToNumber(exp), JNum(1000))
                           ELSE JUndefined,
             isExpired |-> IF Truthy(exp)
                           THEN JBool(Greater(JNum(now), Times(ToNumber(exp), JNum(1000))))
                           ELSE JUndefined,
             issuedAt  |-> IF Truthy(iat) THEN Times(ToNumber(iat), JNum(1000))
                           ELSE JUndefined]
        Checked(parts, header, payload, exp, iat) ==
            IF Len(parts) # 3 THEN NoResult
            ELSE IF ~header.ok \/ ~payload.ok THEN Threw
            ELSE IF ~exp.ok THEN Threw
            ELSE [hit |-> TRUE, threw |-> FALSE, header |-> header.v, payload |-> payload.v,
                  signature |-> parts[3]] @@ Expiry(payload.v, exp.v, iat.v)
        Decoded(parts, header, payload) ==
            Checked(parts, header, payload,
                    GetProp(payload.v, Str("exp")), GetProp(payload.v, Str("iat")))
        Parts(parts) ==
            Decoded(parts,
                    IF Len(parts) >= 1 THEN DecodeJwtPart(parts[1]) ELSE Threw,
                    IF Len(parts) >= 2 THEN DecodeJwtPart(parts[2]) ELSE Threw)
    IN  Parts(Split(Trim(token), Ch["."]))

\* parseJwt(token): hit = FALSE is the result null
ParseJwt(token, now) == CatchNull(ParseJwtTry(token, now))

JwtExpiryPayloads ==
    { "{}", "{\"exp\":0}", "{\"exp\":1}", "{\"exp\":-1}", "{\"exp\":1700000}",
      "{\"exp\":2000000,\"sub\":\"x\"}", "{\"exp\":\"abc\"}", "{\"exp\":\"17\"}",
      "{\"exp\":\"\"}", "{\"exp\":null}", "{\"exp\":true}", "{\"exp\":false}",
      "{\"exp\":1,\"iat\":0}", "{\"iat\":5}", "{\"iat\":1700000,\"exp\":0}",
      "{\"EXP\":1}", "null", "7", "[]", "\"exp\"", "{x", "" }

JwtExpiryHeaders == { "{\"alg\":\"HS256\",\"typ\":\"JWT\"}", "{}", "null", "{x" }

JwtExpiryTokens ==
    { MakeJwt(h, p, sig) : h \in JwtExpiryHeaders, p \in JwtExpiryPayloads, sig \in {"", "c2ln"} }
    \cup { Str(s) : s \in {"", "e30", "e30.e30", "e30.e30.x.y", "a.e30.x", " e30.e30.x\n",
                           "e30.eyJleHAiOjB9.!?", "e30.e30=.x"} }

\* values of the clock in milliseconds, the largest about 23 days after the epoch
MaxClock == 2000000001

ClockValues == {0, 1, 999, 1000, 1001, 17000, 17001, 1700000000, 1700000001, MaxClock - 1, MaxClock}

InitJwt ==
    /\ op = "input"
    /\ arg \in {Shown(JStr(token)) @@ [now |-> now] : token \in JwtExpiryTokens, now \in ClockValues}
    /\ ret = <<>>
    /\ env = <<>>

CallParseJwt ==
    /\ op = "input"
    /\ op' = "parseJwt"
    /\ ret' = ParseJwt(arg.value.s, arg.now)
    /\ UNCHANGED <<arg, env>>

NextJwt == CallParseJwt

SpecJwt == InitJwt /\ [][NextJwt]_vars

\* C7: JWT expiry. For every token parseJwt accepts, isExpired and expiresAt are
\* defined exactly when the payload contains an exp claim, for every numeric value
\* of exp, 0 included, and then isExpired is (now > exp * 1000); a token whose exp
\* lies in the past yields isExpired = true.
C7_ExpiryWheneverExpPresent ==
    (op = "parseJwt" /\ ret.hit) =>
        LET exp == GetProp(ret.payload, Str("exp")).v
        IN  /\ ~HasField(ret.payload, "exp") =>
                   ret.isExpired = JUndefined /\ ret.expiresAt = JUndefined
            /\ (HasField(ret.payload, "exp") /\ exp.t = "num") =>
                   /\ ret.expiresAt = JNum(exp.n * 1000)
                   /\ ret.isExpired = JBool(arg.now > exp.n * 1000)

(***************************************************************************)
(* prettyPrintJson and minifyJson                                          *)
(***************************************************************************)

\* minifyJson that returns a string input as it is
MinifyJsonUnparsed(input) ==
    IF input.t = "str" THEN input.s ELSE Stringify(input, 0, 0)

\* typeof input === 'string' ? JSON.parse(input) : input, then JSON.stringify with
\* the gap; the catch returns a string input as it is
StringifyInput(input, gap) ==
    LET Parsed1(parsed) ==
            IF parsed.ok THEN Stringify(parsed.v, gap, 0) ELSE input.s
    IN  IF input.t = "str" THEN Parsed1(JsonParse(input.s)) ELSE Stringify(input, gap, 0)

\* prettyPrintJson(input)
PrettyPrintJson(input) == StringifyInput(input, 2)

\* minifyJson(input)
MinifyJson(input) == StringifyInput(input, 0)

MaxJsonWidth == 2

JsonStrings ==
    { "", "a", "1", "null", "hello world", "a\"b", "\\", "\n", "{}", "[1, 2]", "{\"a\":1}",
      " 7 ", "tru", "\"s\"", "-0", "[1,]", "{\"a\": [ true , {\"b\":null} ] }",
      "{\"a\":1,\"a\":2}", "[\"\\u0041\\n\"]" }

JsonAtoms ==
    {JNull, JBool(TRUE), JBool(FALSE), JNum(0), JNum(-5), JNum(42)}
    \cup {JStr(Str(s)) : s \in JsonStrings}

\* the values put inside arrays and objects
JsonLeaves == {JNull, JBool(TRUE), JNum(-5), JStr(Str("a")), JStr(Str("a\"b\n")), JStr(Str("{}"))}

JsonKeys == {Str("a"), Str("b c")}

\* the sequences of up to n elements of S
SeqsUpTo(S, n) == UNION {[1..k -> S] : k \in 0..n}

\* the arrays and the objects of up to MaxJsonWidth members drawn from S
ContainersOf(S) ==
    {JArr(a) : a \in SeqsUpTo(S, MaxJsonWidth)}
    \cup {JObj(o) : o \in {m \in SeqsUpTo(JsonKeys \X S, MaxJsonWidth) :
                               \A i, j \in 1..Len(m) : m[i][1] = m[j][1] => i = j}}

\* some containers put inside containers
JsonInner ==
    {JArr(<<>>), JObj(<<>>), JArr(<<JNull>>), JObj(<<<<Str("a"), JStr(Str("a"))>>>>),
     JArr(<<JArr(<<JNum(42)>>)>>)}

JsonValues == JsonAtoms \cup ContainersOf(JsonLeaves) \cup ContainersOf(JsonInner \cup {JNum(0)})

InitJson ==
    /\ op = "input"
    /\ arg \in {[value |-> x, text |-> Show(Stringify(x, 0, 0))] : x \in JsonValues}
    /\ ret = <<>>
    /\ env = <<>>

CallPrettyPrintJson ==
    /\ op = "input"
    /\ op' = "prettyPrintJson"
    /\ ret' = PrettyPrintJson(arg.value)
    /\ UNCHANGED <<arg, env>>

\* minifyJson of the input, or of what prettyPrintJson returned for it
CallMinifyJson ==
    /\ op \in {"input", "prettyPrintJson"}
    /\ op' = IF op = "input" THEN "minifyJson" ELSE "minifyJson(prettyPrintJson)"
    /\ ret' = MinifyJson(IF op = "input" THEN arg.value ELSE JStr(ret))
    /\ UNCHANGED <<arg, env>>

NextJson == CallPrettyPrintJson \/ CallMinifyJson

SpecJson == InitJson /\ [][NextJson]_vars

\* minifyJson(prettyPrintJson(x)) has returned
RoundTripped == op = "minifyJson(prettyPrintJson)"

Rounded(a, b) ==
    LET Of(n, d) ==
            IF 2 * (n % d) = d
            THEN {[v |-> n \div d, tie |-> TRUE], [v |-> (n \div d) + 1, tie |-> TRUE]}
            ELSE {[v |-> (n \div d) + (IF 2 * (n % d) > d THEN 1 ELSE 0), tie |-> FALSE]}
    IN  IF b < 0 THEN Of(-a, -b) ELSE Of(a, b)

\* an alpha is a fraction n / d, or NaN
Fraction(n, d) == [t |-> "frac", n |-> n, d |-> d]

Opaque == Fraction(1, 1)

Max3(a, b, c) == Max(a, Max(b, c))

Min3(a, b, c) == Min(a, Min(b, c))

\* rgbToHsl that takes s = d / (max + min) whatever l is
RgbToHslDark(rgb) ==
    LET max == Max3(rgb.r, rgb.g, rgb.b)
        min == Min3(rgb.r, rgb.g, rgb.b)
        d   == max - min
        ls  == Rounded((max + min) * 100, 510)
        hn  == IF max = rgb.r
               THEN 60 * (rgb.g - rgb.b) + (IF rgb.g < rgb.b THEN 360 * d ELSE 0)
               ELSE IF max = rgb.g THEN 60 * (rgb.b - rgb.r) + 120 * d
               ELSE 60 * (rgb.r - rgb.g) + 240 * d
    IN  IF max = min
        THEN {[h |-> 0, s |-> 0, l |-> l.v, a |-> rgb.a, tie |-> l.tie] : l \in ls}
        ELSE {[h |-> h.v, s |-> s.v, l |-> l.v, a |-> rgb.a,
               tie |-> h.tie \/ s.tie \/ l.tie] :
                  h \in Rounded(hn, d), s \in Rounded(100 * d, max + min), l \in ls}

\* rgbToHsl, with every channel scaled by 255: max is max * 255, and so on
RgbToHsl(rgb) ==
    LET max == Max3(rgb.r, rgb.g, rgb.b)
        min == Min3(rgb.r, rgb.g, rgb.b)
        d   == max - min
        \* l = (max + min) / 2, in percent
        ls  == Rounded((max + min) * 100, 510)
        \* s = l > 0.5 ? d / (2 - max - min) : d / (max + min), in percent
        ss  == IF max + min > 255 THEN Rounded(100 * d, 510 - max - min)
               ELSE Rounded(100 * d, max + min)
        \* h * 360 is hn / d
        hn  == IF max = rgb.r
               THEN 60 * (rgb.g - rgb.b) + (IF rgb.g < rgb.b THEN 360 * d ELSE 0)
               ELSE IF max = rgb.g THEN 60 * (rgb.b - rgb.r) + 120 * d
               ELSE 60 * (rgb.r - rgb.g) + 240 * d
    IN  IF max = min
        THEN {[h |-> 0, s |-> 0, l |-> l.v, a |-> rgb.a, tie |-> l.tie] : l \in ls}
        ELSE {[h |-> h.v, s |-> s.v, l |-> l.v, a |-> rgb.a,
               tie |-> h.tie \/ s.tie \/ l.tie] :
                  h \in Rounded(hn, d), s \in ss, l \in ls}

\* hue2rgb(p, q, t) * 600000, for p = P / 10000, q = Q / 10000 and t = T / 360
Hue2Rgb(P, Q, T) ==
    LET Turned(t)  == IF t > 360 THEN t - 360 ELSE t
        Branch(t)  == IF t < 60 THEN 60 * P + (Q - P) * t
                      ELSE IF t < 180 THEN 60 * Q
                      ELSE IF t < 240 THEN 60 * P + (Q - P) * (240 - t)
                      ELSE 60 * P
    IN  Branch(Turned(IF T < 0 THEN T + 360 ELSE T))

\* hslToRgb: Math.round(c * 255) is the rounding of 255 * (c * 600000) / 600000
HslToRgb(hsl) ==
    IF hsl.s = 0
    THEN {[r |-> c.v, g |-> c.v, b |-> c.v, a |-> hsl.a, tie |-> c.tie] :
              c \in Rounded(hsl.l * 255, 100)}
    ELSE LET Channel(P, Q, T) == Rounded(17 * Hue2Rgb(P, Q, T), 40000)
             Of(P, Q) ==
                 {[r |-> r.v, g |-> g.v, b |-> b.v, a |-> hsl.a,
                   tie |-> r.tie \/ g.tie \/ b.tie] :
                      r \in Channel(P, Q, hsl.h + 120),
                      g \in Channel(P, Q, hsl.h),
                      b \in Channel(P, Q, hsl.h - 120)}
             \* q = l < 0.5 ? l * (1 + s) : l + s - l * s, times 10000
             Q == IF hsl.l < 50 THEN hsl.l * (100 + hsl.s)
                  ELSE 100 * hsl.l + 100 * hsl.s - hsl.l * hsl.s
         IN  Of(200 * hsl.l - Q, Q)

\* parseColor returned null
NoColor == [hit |-> FALSE]

Colour(r, g, b, a, tie) == [hit |-> TRUE, r |-> r, g |-> g, b |-> b, a |-> a, tie |-> tie]

RECURSIVE Power10(_)
Power10(k) == IF k = 0 THEN 1 ELSE 10 * Power10(k - 1)

\* parseFloat of a text of digits and dots: the longest prefix digits[.digits]
ParseFloat(s) ==
    LET Of(whole, rest) ==
            LET digits == IF rest # <<>> /\ rest[1] = Ch["."]
                          THEN SubSeq(rest, 2, RunEnd(rest, 2, Digits) - 1)
                          ELSE <<>>
            IN  IF whole = <<>> /\ digits = <<>> THEN NaN
                ELSE Fraction(DigitsValue(whole \o digits), Power10(Len(digits)))
        Cut(p) == Of(SubSeq(s, 1, p - 1), SubSeq(s, p, Len(s)))
    IN  Cut(RunEnd(s, 1, Digits))

\* /^#([A-Fa-f0-9]{3,8})$/
MatchesHexDigits(t) == AtEnd(t, MRep(t, MSet(t, {1}, {Ch["#"]}), HexDigits, 3, 8))

\* parseInt(hex.slice(i - 1, i + 1), 16), one-based
HexPair(hex, i) == 16 * HexVal(hex[i]) + HexVal(hex[i + 1])

\* the capture groups of the rgb and hsl patterns, once the pattern has matched:
\* the text between the brackets, cut at its commas
Captures(t) ==
    LET open == CHOOSE p \in 1..Len(t) : t[p] = Ch["("]
    IN  Split(SubSeq(t, open + 1, Len(t) - 1), Ch[","])

\* parseInt(m[k], 10): the digits the k-th group captured
Component(fields, k) ==
    LET Of(field) == DigitsValue(SubSeq(field, 1, RunEnd(field, 1, Digits) - 1))
    IN  Of(Trim(fields[k]))

\* m[4] ? parseFloat(m[4]) : 1
Alpha(fields) ==
    IF Len(fields) = 4 THEN ParseFloat(Trim(fields[4])) ELSE Opaque

\* parseColor's hex branch reading a digit of the short form once
ParseHexColorUndoubled(hex) ==
    IF Len(hex) = 3
    THEN Colour(HexVal(hex[1]), HexVal(hex[2]), HexVal(hex[3]), Opaque, FALSE)
    ELSE IF Len(hex) = 6
    THEN Colour(HexPair(hex, 1), HexPair(hex, 3), HexPair(hex, 5), Opaque, FALSE)
    ELSE NoColor

ParseHexColor(hex) ==
    IF Len(hex) = 3
    THEN Colour(17 * HexVal(hex[1]), 17 * HexVal(hex[2]), 17 * HexVal(hex[3]),
                Opaque, FALSE)
    ELSE IF Len(hex) = 6
    THEN Colour(HexPair(hex, 1), HexPair(hex, 3), HexPair(hex, 5),
                Opaque, FALSE)
    ELSE IF Len(hex) = 8
    THEN Colour(HexPair(hex, 1), HexPair(hex, 3), HexPair(hex, 5),
                Fraction(HexPair(hex, 7), 255), FALSE)
    ELSE NoColor

\* parseColor: the set of its possible results
ParseColor(input) ==
    LET Of(trimmed) ==
            IF MatchesHexDigits(trimmed)
            THEN {ParseHexColor(SubSeq(trimmed, 2, Len(trimmed)))}
            ELSE IF MatchesColorFunction(trimmed, "rgb", FALSE)
            THEN LET Rgb(m) == Colour(Component(m, 1), Component(m, 2), Component(m, 3),
                                      Alpha(m), FALSE)
                 IN  {Rgb(Captures(trimmed))}
            ELSE IF MatchesColorFunction(trimmed, "hsl", TRUE)
            THEN LET Hsl(m) == [h |-> Component(m, 1), s |-> Component(m, 2),
                                l |-> Component(m, 3), a |-> Alpha(m)]
                 IN  {Colour(c.r, c.g, c.b, c.a, c.tie) : c \in HslToRgb(Hsl(Captures(trimmed)))}
            ELSE {NoColor}
    IN  Of(Trim(input))

RECURSIVE HexDigitsOf(_)
HexDigitsOf(n) ==
    IF n < 16 THEN <<HexDigitChars[n + 1]>>
    ELSE Append(HexDigitsOf(n \div 16), HexDigitChars[(n % 16) + 1])

\* n.toString(16)
ToString16(n) == IF n < 0 THEN <<Ch["-"]>> \o HexDigitsOf(-n) ELSE HexDigitsOf(n)

\* n.toString(16).padStart(2, '0')
HexByte(n) == IF Len(ToString16(n)) < 2 THEN <<Ch["0"]>> \o ToString16(n) ELSE ToString16(n)

\* `#${r}${g}${b}` of three numbers, each through toString(16).padStart(2, '0')
HexTriple(r, g, b) == <<Ch["#"]>> \o HexByte(r) \o HexByte(g) \o HexByte(b)

GetComplementary(rgb) == HexTriple(255 - rgb.r, 255 - rgb.g, 255 - rgb.b)

tailwindColors ==
    << <<"slate-50", 248, 250, 252>>, <<"slate-100", 241, 245, 249>>,
       <<"slate-200", 226, 232, 240>>, <<"slate-300", 203, 213, 225>>,
       <<"slate-400", 148, 163, 184>>, <<"slate-500", 100, 116, 139>>,
       <<"slate-600", 71, 85, 105>>, <<"slate-700", 51, 65, 85>>,
       <<"slate-800", 30, 41, 59>>, <<"slate-900", 15, 23, 42>>,
       <<"slate-950", 2, 6, 23>>, <<"red-500", 239, 68, 68>>,
       <<"orange-500", 249, 115, 22>>, <<"amber-400", 251, 191, 36>>,
       <<"amber-500", 245, 158, 11>>, <<"yellow-500", 234, 179, 8>>,
       <<"lime-500", 132, 204, 22>>, <<"green-500", 34, 197, 94>>,
       <<"emerald-500", 16, 185, 129>>, <<"teal-500", 20, 184, 166>>,
       <<"cyan-500", 6, 182, 212>>, <<"sky-500", 14, 165, 233>>,
       <<"blue-500", 59, 130, 246>>, <<"indigo-500", 99, 102, 241>>,
       <<"violet-500", 139, 92, 246>>, <<"purple-500", 168, 85, 247>>,
       <<"fuchsia-500", 217, 70, 239>>, <<"pink-500", 236, 72, 153>>,
       <<"rose-500", 244, 63, 94>>, <<"white", 255, 255, 255>>,
       <<"black", 0, 0, 0>> >>

\* findTailwindColor: the first entry at the least distance (the square root is
\* increasing, so the squares are compared)
FindTailwindColor(rgb) ==
    LET Square(x) == x * x
        distance(i) == Square(rgb.r - tailwindColors[i][2])
                       + Square(rgb.g - tailwindColors[i][3])
                       + Square(rgb.b - tailwindColors[i][4])
        closest == CHOOSE i \in DOMAIN tailwindColors :
                       \A j \in DOMAIN tailwindColors :
                           /\ distance(i) <= distance(j)
                           /\ j < i => distance(i) < distance(j)
    IN  Str("bg-") \o Str(tailwindColors[closest][1])

\* Math.round(rgb.a * 255).toString(16).padStart(2, '0'): its possible results
AlphaByte(a) ==
    IF a.t = "nan" THEN {[text |-> Str("NaN"), tie |-> FALSE]}
    ELSE {[text |-> HexByte(x.v), tie |-> x.tie] : x \in Rounded(255 * a.n, a.d)}

\* colorToFormats: the set of its possible results.  The fields rgba and hsla,
\* whose texts end in the decimal expansion of the alpha, are kept as the
\* numbers the texts are made of.
ColorToFormats(input) ==
    LET Text(n) == IntToString(n)
        Formats(rgb, hsl, alpha) ==
            [hit |-> TRUE,
             hex |-> HexTriple(rgb.r, rgb.g, rgb.b),
             hex8 |-> HexTriple(rgb.r, rgb.g, rgb.b) \o alpha.text,
             rgb |-> Str("rgb(") \o Text(rgb.r) \o Str(", ") \o Text(rgb.g)
                     \o Str(", ") \o Text(rgb.b) \o Str(")"),
             rgba |-> <<rgb.r, rgb.g, rgb.b, rgb.a>>,
             hsl |-> Str("hsl(") \o Text(hsl.h) \o Str(", ") \o Text(hsl.s)
                     \o Str("%, ") \o Text(hsl.l) \o Str("%)"),
             hsla |-> <<hsl.h, hsl.s, hsl.l, hsl.a>>,
             tailwind |-> FindTailwindColor(rgb),
             complementary |-> GetComplementary(rgb),
             original |-> [r |-> rgb.r, g |-> rgb.g, b |-> rgb.b, a |-> rgb.a],
             tie |-> rgb.tie \/ hsl.tie \/ alpha.tie]
        Of(rgb) ==
            IF ~rgb.hit THEN {NoColor}
            ELSE {Formats(rgb, hsl, alpha) : hsl \in RgbToHsl(rgb), alpha \in AlphaByte(rgb.a)}
    IN  UNION {Of(rgb) : rgb \in ParseColor(input)}

(***************************************************************************)
(* The colour functions on their inputs: an RGB triple goes through        *)
(* rgbToHsl and its result through hslToRgb; a text goes through           *)
(* colorToFormats.  The texts are chosen so that 32-bit integers hold      *)
(* every intermediate value and no divisor of rgbToHsl is 0.               *)
(***************************************************************************)

\* the channels 0..255 are sampled at every ChannelStep-th value
ChannelStep == 17

\* channels next to the ends of the range and of the triples that convert worst
NearbyChannels == {1, 2, 3, 15, 18, 22, 253, 254}

ChannelSample == {c \in 0..255 : c % ChannelStep = 0} \cup NearbyChannels

RgbTriples ==
    {[t |-> "rgb", r |-> r, g |-> g, b |-> b, a |-> Opaque] :
        r \in ChannelSample, g \in ChannelSample, b \in ChannelSample}

\* components of one to three digits, in and out of a channel's range
ComponentSample == {0, 7, 255, 256, 999}

RgbTexts ==
    {Str("rgb(") \o IntToString(r) \o Str(",") \o IntToString(g) \o Str(",")
     \o IntToString(b) \o Str(")") :
        r \in ComponentSample, g \in ComponentSample, b \in ComponentSample}

HslTexts ==
    {Str("hsl(") \o IntToString(h) \o Str(", ") \o IntToString(s) \o Str("%, ")
     \o IntToString(l) \o Str("%)") :
        h \in {0, 120, 359, 360, 999}, s \in {0, 50, 100, 999}, l \in {0, 25, 50, 100, 999}}

AlphaTexts ==
    {Str(w) \o Str(a) \o Str(")") :
        w \in {"rgba(1,2,3,", "hsla(210, 40%, 17%, "},
        a \in {"0", "1", "0.5", ".5", "1.", "0.1", "0.25", "255", "1.5.5", ".", ".."}}

OtherColorTexts ==
    {Str(w) : w \in {"#fff", "#FFF", "#000", "#1a2b3c", "#1A2B3C", "#1a2b3c80", "#ffffff00",
                     "#0000007f", " #abc ", "#1234", "#12345", "#1234567", "#ggg", "#",
                     "#ff", "#123456789", "RGB( 10 , 20 , 30 )", "rgb (1,2,3)", "rgb(1,2)",
                     "rgb(1000,0,0)", "rgb(-1,0,0)", "rgb(1.5,0,0)", "rgb(10%,0,0)",
                     "rgba(255,255,255)", "Rgba( 0,0,0 , 1 )", "hsl(120,50,50)",
                     "HSL(0,0%,100%)", "hsla(0,100%,50%)", "hsl(120deg,50%,50%)",
                     "hsl(120, 50%)", " hsl(300,100%,25%) ", "", "hello", "red", "rgb",
                     "123", "ffffff", "color: #fff"}}

ColorTexts == RgbTexts \cup HslTexts \cup AlphaTexts \cup OtherColorTexts

\* before the call: the caller holds an RGB triple or a text
InitColor ==
    /\ op = "input"
    /\ arg \in {Shown(input) : input \in RgbTriples \cup {JStr(w) : w \in ColorTexts}}
    /\ ret = <<>>
    /\ env = <<>>

CallRgbToHsl ==
    /\ op = "input" /\ arg.value.t = "rgb"
    /\ op' = "rgbToHsl"
    /\ ret' \in RgbToHsl(arg.value)
    /\ UNCHANGED <<arg, env>>

\* hslToRgb(rgbToHsl(rgb)); tie tells whether either call met a halfway case
CallHslToRgb ==
    /\ op = "rgbToHsl"
    /\ op' = "hslToRgb(rgbToHsl)"
    /\ ret' \in {[rgb EXCEPT !.tie = rgb.tie \/ ret.tie] : rgb \in HslToRgb(ret)}
    /\ UNCHANGED <<arg, env>>

CallColorToFormats ==
    /\ op = "input" /\ arg.value.t = "str"
    /\ op' = "colorToFormats"
    /\ ret' \in ColorToFormats(arg.value.s)
    /\ UNCHANGED <<arg, env>>

NextColor == CallRgbToHsl \/ CallHslToRgb \/ CallColorToFormats

SpecColor == InitColor /\ [][NextColor]_vars

\* hslToRgb(rgbToHsl(rgb)) has returned
ConvertedBack == op = "hslToRgb(rgbToHsl)"

\* the greatest difference between a channel of the original and of the result
ChannelError ==
    LET Abs(x) == IF x < 0 THEN -x ELSE x
    IN  Max3(Abs(ret.r - arg.value.r), Abs(ret.g - arg.value.g), Abs(ret.b - arg.value.b))

\* C9 as amended: for every RGB triple with r, g, b in 0..255, converting it with
\* rgbToHsl (which rounds h, s, l to integers) and back with hslToRgb yields a
\* triple whose every channel differs from the original by at most 5, whichever
\* way the halfway cases round.
C9_RoundTripWithinFive == ConvertedBack => ChannelError <= 5

\* C9: for every RGB triple with r, g, b in 0..255, converting it with rgbToHsl
\* and back with hslToRgb yields a triple whose every channel differs from the
\* original by at most 1 (stated of the conversions that meet no halfway case,
\* whose results the exact arithmetic determines).
C9_RoundTripWithinOne == ConvertedBack /\ ~ret.tie => ChannelError <= 1

\* a conversion with no halfway case has come back with a channel 5 away
C9_Witness_FiveAway == ConvertedBack /\ ~ret.tie /\ ChannelError = 5

\* '#' followed by exactly six hexadecimal digits
IsHexColor(s) == Len(s) = 7 /\ s[1] = Ch["#"] /\ \A i \in 2..7 : s[i] \in HexDigits

\* C10: for every input that detect classifies as 'color', colorToFormats returns
\* a bundle whose original r, g and b are integers in 0..255, so that hex and
\* complementary are each '#' followed by exactly six hexadecimal digits (stated
\* of the calls that meet no halfway case).
C10_ChannelsInRange ==
    (op = "colorToFormats" /\ Detect(arg.value).type = "color") =>
        /\ ret.hit
        /\ ~ret.tie =>
              /\ {ret.original.r, ret.original.g, ret.original.b} \subseteq 0..255
              /\ IsHexColor(ret.hex)
              /\ IsHexColor(ret.complementary)

(***************************************************************************)
(* generateUuid and parseUuid.  The random draws of generateUuid are its   *)
(* input: draws[k] is (Math.random() * 16) | 0 of the k-th replaced        *)
(* character, a number in 0..15.                                           *)
(***************************************************************************)

RECURSIVE BitAnd(_, _)
\* a & b of two naturals
BitAnd(a, b) ==
    IF a = 0 \/ b = 0 THEN 0
    ELSE 2 * BitAnd(a \div 2, b \div 2) + (IF a % 2 = 1 /\ b % 2 = 1 THEN 1 ELSE 0)

RECURSIVE BitOr(_, _)
\* a | b of two naturals
BitOr(a, b) ==
    IF a = 0 THEN b
    ELSE IF b = 0 THEN a
    ELSE 2 * BitOr(a \div 2, b \div 2) + (IF a % 2 = 1 \/ b % 2 = 1 THEN 1 ELSE 0)

UuidTemplate == Str("xxxxxxxx-xxxx-4xxx-yxxx-xxxxxxxxxxxx")

\* the 'y' nibble left as drawn
VariantNibbleAsDrawn(r) == r

\* (r & 0x3) | 0x8
VariantNibble(r) == BitOr(BitAnd(r, 3), 8)

\* generateUuid: the template with its k-th x or y replaced from the k-th draw
GenerateUuid(draws) ==
    LET Replaced(i) == Cardinality({j \in 1..i : UuidTemplate[j] \in {Ch["x"], Ch["y"]}})
        V(c, r) == IF c = Ch["x"] THEN r ELSE VariantNibble(r)
    IN  [i \in 1..Len(UuidTemplate) |->
            IF UuidTemplate[i] \in {Ch["x"], Ch["y"]}
            THEN HexDigitChars[V(UuidTemplate[i], draws[Replaced(i)]) + 1]
            ELSE UuidTemplate[i]]

LowerHexDigits == Digits \cup (Ch["a"]..Ch["f"])

\* /^[0-9a-f]{8}-[0-9a-f]{4}-([0-9a-f])[0-9a-f]{3}-([0-9a-f])[0-9a-f]{3}-[0-9a-f]{12}$/
MatchesLowerUuid(t) ==
    LET hex(P, n) == MRep(t, P, LowerHexDigits, n, n)
        dash(P)   == MSet(t, P, {Ch["-"]})
    IN  AtEnd(t, hex(dash(hex(dash(hex(dash(hex(dash(hex({1}, 8)), 4)), 4)), 4)), 12))

ToLowerCase(s) == [i \in 1..Len(s) |-> LowerOf(s[i])]

\* the variant of a variant nibble
VariantOf(variantChar) ==
    IF BitAnd(variantChar, 8) = 0 THEN "NCS"
    ELSE IF BitAnd(variantChar, 12) = 8 THEN "RFC 4122"
    ELSE IF BitAnd(variantChar, 14) = 12 THEN "Microsoft"
    ELSE IF BitAnd(variantChar, 14) = 14 THEN "Future"
    ELSE "Unknown"

\* parseUuid: [hit |-> FALSE] is null
ParseUuid(uuid) ==
    LET Of(cleaned) ==
            IF ~MatchesLowerUuid(cleaned) THEN [hit |-> FALSE]
            ELSE [hit |-> TRUE, version |-> HexVal(cleaned[15]),
                  variant |-> VariantOf(HexVal(cleaned[20]))]
    IN  Of(ToLowerCase(Trim(uuid)))

\* one draw for every x and y of the template
DrawCount == Cardinality({i \in 1..Len(UuidTemplate) : UuidTemplate[i] \in {Ch["x"], Ch["y"]}})

\* the draws: one nibble for every character but one, which has its own

UuidDraws ==
    {[k \in 1..DrawCount |-> IF k = p THEN b ELSE a] :
        a \in 0..15, b \in 0..15, p \in 1..DrawCount}

InitUuid ==
    /\ op = "input"
    /\ arg \in {[value |-> draws, text |-> "draws"] : draws \in UuidDraws}
    /\ ret = <<>>
    /\ env = <<>>

CallGenerateUuid ==
    /\ op = "input"
    /\ op' = "generateUuid"
    /\ ret' = GenerateUuid(arg.value)
    /\ UNCHANGED <<arg, env>>

\* parseUuid(generateUuid())
CallParseUuid ==
    /\ op = "generateUuid"
    /\ op' = "parseUuid(generateUuid)"
    /\ ret' = [uuid |-> ret, parsed |-> ParseUuid(ret)]
    /\ UNCHANGED <<arg, env>>

\* detect(generateUuid())
CallDetectUuid ==
    /\ op = "generateUuid"
    /\ op' = "detect(generateUuid)"
    /\ ret' = [uuid |-> ret, detected |-> Detect(JStr(ret))]
    /\ UNCHANGED <<arg, env>>

NextUuid == CallGenerateUuid \/ CallParseUuid \/ CallDetectUuid

SpecUuid == InitUuid /\ [][NextUuid]_vars

\* C11: for every outcome of the random draws, generateUuid returns a string that
\* parseUuid accepts and classifies as version 4 with variant 'RFC 4122' (the
\* variant nibble in 0x8..0xb), and that detect classifies as 'uuid'.
C11_GeneratedUuidIsVersion4 ==
    /\ op = "parseUuid(generateUuid)" =>
           /\ ret.parsed = [hit |-> TRUE, version |-> 4, variant |-> "RFC 4122"]
           /\ HexVal(ret.uuid[20]) \in 8..11
    /\ op = "detect(generateUuid)" =>
           ret.detected.hit /\ ret.detected.type = "uuid"

\* a draw of 15 for the variant nibble, which the mask brings down to 0xb, has
\* been generated and parsed
C11_Witness_VariantMasked ==
    /\ op = "parseUuid(generateUuid)"
    /\ arg.value[16] = 15
    /\ ret.uuid[20] = Ch["b"]
    /\ ret.parsed.hit

(***************************************************************************)
(* numberToAllBases and parseNumber.  A number is the canonical sequence   *)
(* of the decimal digits of an integer that a double holds exactly; the    *)
(* numbers drawn are at most 2^53 or have at most 15 significant digits,   *)
(* so that the shortest decimal text of the double is the exact one.       *)
(***************************************************************************)

RECURSIVE TimesPlusFrom(_, _, _, _, _)
TimesPlusFrom(n, i, radix, carry, acc) ==
    IF i = 0 THEN (IF carry = 0 THEN acc ELSE NatDigits(carry) \o acc)
    ELSE LET Step(v) == TimesPlusFrom(n, i - 1, radix, v \div 10, <<48 + (v % 10)>> \o acc)
         IN  Step((n[i] - 48) * radix + carry)

\* n * radix + d
BigTimesPlus(n, radix, d) == StripZeros(TimesPlusFrom(n, Len(n), radix, d, <<>>))

RECURSIVE DivFrom(_, _, _, _, _)
DivFrom(n, i, radix, rem, q) ==
    IF i > Len(n) THEN [q |-> StripZeros(q), r |-> rem]
    ELSE LET Step(cur) == DivFrom(n, i + 1, radix, cur % radix, Append(q, 48 + (cur \div radix)))
         IN  Step(rem * 10 + (n[i] - 48))

\* the quotient and the remainder of n by radix
BigDivMod(n, radix) == DivFrom(n, 1, radix, 0, <<>>)

RECURSIVE Power(_, _)
Power(x, e) == IF e = 0 THEN 1 ELSE x * Power(x, e - 1)

\* the digits of a radix are produced and consumed DigitsPerStep(radix) at a
\* time (radix to that power stays below 2^17), which keeps the recursions on
\* the long binary texts shallow
DigitsPerStep(radix) == IF radix = 2 THEN 16 ELSE IF radix = 8 THEN 5 ELSE 4

\* the k digits of r < radix^k in a radix, zeros in front included
PaddedDigits(r, radix, k) ==
    [i \in 1..k |-> HexDigitChars[((r \div Power(radix, k - i)) % radix) + 1]]

RECURSIVE ToStringRadix(_, _)
\* n.toString(radix) for radix 2, 8 or 16
ToStringRadix(n, radix) ==
    LET Of(dm) ==
            IF dm.q = Str("0") THEN StripZeros(PaddedDigits(dm.r, radix, DigitsPerStep(radix)))
            ELSE ToStringRadix(dm.q, radix) \o PaddedDigits(dm.r, radix, DigitsPerStep(radix))
    IN  Of(BigDivMod(n, Power(radix, DigitsPerStep(radix))))

RECURSIVE StripTrailingZeros(_)
StripTrailingZeros(d) ==
    IF Len(d) > 1 /\ d[Len(d)] = Ch["0"] THEN StripTrailingZeros(SubSeq(d, 1, Len(d) - 1)) ELSE d

\* n.toString(10): the digits below 10^21, the exponential notation from there on
ToString10(n) ==
    IF Len(n) <= 21 THEN n
    ELSE LET Of(digits) ==
                 <<digits[1]>>
                 \o (IF Len(digits) > 1 THEN Str(".") \o Tail(digits) ELSE <<>>)
                 \o Str("e+") \o IntToString(Len(n) - 1)
         IN  Of(StripTrailingZeros(n))

\* the uppercase of a code unit, for ASCII, Latin-1 and the code units whose
\* uppercase is another length or another block: "ß" gives "SS", "\u0149" gives
\* "\u02BC" and "N", "ÿ" gives "\u0178", "µ" gives "\u039C", "\u0131" gives "I"
UpperCaseOf(c) ==
    IF c \in LowerLetters \/ (c \in 224..254 /\ c # 247) THEN <<c - 32>>
    ELSE IF c = 223 THEN <<83, 83>>
    ELSE IF c = 255 THEN <<376>>
    ELSE IF c = 181 THEN <<924>>
    ELSE IF c = 305 THEN <<73>>
    ELSE IF c = 329 THEN <<700, 78>>
    ELSE <<c>>

\* String.prototype.toUpperCase
ToUpperCase(s) == Flatten([i \in 1..Len(s) |-> UpperCaseOf(s[i])])

NumberToAllBases(value) ==
    [decimal |-> ToString10(value),
     hex     |-> Str("0x") \o ToUpperCase(ToStringRadix(value, 16)),
     binary  |-> Str("0b") \o ToStringRadix(value, 2),
     octal   |-> Str("0o") \o ToStringRadix(value, 8)]

\* the digits of a radix up to 16
RadixDigits(radix) == {c \in HexDigits : HexVal(c) < radix}

RECURSIVE BigValueFrom(_, _, _, _)
\* the value of the digits d from the i-th on, after the value acc of those before
BigValueFrom(d, i, radix, acc) ==
    IF i > Len(d) THEN acc
    ELSE LET Step(chunk) ==
                 BigValueFrom(d, i + Len(chunk), radix,
                              BigTimesPlus(acc, Power(radix, Len(chunk)),
                                           RadixValue(chunk, radix)))
         IN  Step(SubSeq(d, i, Min(i + DigitsPerStep(radix) - 1, Len(d))))

Number(neg, digits) == [t |-> "big", neg |-> neg, n |-> digits]

\* parseInt(s, radix) for radix 2, 8, 10 or 16: NaN, or the value of the longest
\* prefix of digits after the white space, the sign and, in radix 16, the 0x
ParseInt(s, radix) ==
    LET Value(neg, t) ==
            LET Digs(z) == IF z = <<>> THEN NaN
                           ELSE Number(neg, BigValueFrom(z, 1, radix, Str("0")))
            IN  Digs(SubSeq(t, 1, RunEnd(t, 1, RadixDigits(radix)) - 1))
        Unprefixed(neg, t) ==
            IF radix = 16 /\ (StartsWith(t, Str("0x")) \/ StartsWith(t, Str("0X")))
            THEN Value(neg, SubSeq(t, 3, Len(t)))
            ELSE Value(neg, t)
        Signed(t) ==
            IF t # <<>> /\ t[1] \in {Ch["-"], Ch["+"]}
            THEN Unprefixed(t[1] = Ch["-"], Tail(t))
            ELSE Unprefixed(FALSE, t)
    IN  Signed(TrimLeft(s))

\* parseNumber that hands the whole text to parseInt in every base
ParseNumberUnsliced(input) ==
    LET Of(trimmed) ==
            IF StartsWith(trimmed, Str("0x")) \/ StartsWith(trimmed, Str("0X"))
            THEN ParseInt(trimmed, 16)
            ELSE IF StartsWith(trimmed, Str("0b")) \/ StartsWith(trimmed, Str("0B"))
            THEN ParseInt(trimmed, 2)
            ELSE IF StartsWith(trimmed, Str("0o")) \/ StartsWith(trimmed, Str("0O"))
            THEN ParseInt(trimmed, 8)
            ELSE ParseInt(trimmed, 10)
    IN  Of(Trim(input))

\* parseNumber (parseInt does not throw, so the catch is never entered)
ParseNumber(input) ==
    LET Of(trimmed) ==
            IF StartsWith(trimmed, Str("0x")) \/ StartsWith(trimmed, Str("0X"))
            THEN ParseInt(trimmed, 16)
            ELSE IF StartsWith(trimmed, Str("0b")) \/ StartsWith(trimmed, Str("0B"))
            THEN ParseInt(SubSeq(trimmed, 3, Len(trimmed)), 2)
            ELSE IF StartsWith(trimmed, Str("0o")) \/ StartsWith(trimmed, Str("0O"))
            THEN ParseInt(SubSeq(trimmed, 3, Len(trimmed)), 8)
            ELSE ParseInt(trimmed, 10)
    IN  Of(Trim(input))

\* every integer up to MaxSmallNumber is drawn
MaxSmallNumber == 300

\* 2^31, 2^32 and 2^53 with their neighbours below, and powers of ten
LargeNumbers ==
    {Str(w) : w \in {"2147483647", "2147483648", "4294967295", "4294967296",
                     "9007199254740991", "9007199254740992", "1000000000000000",
                     "100000000000000000000", "500000000000000000000",
                     "1000000000000000000000", "2000000000000000000000",
                     "1500000000000000000000", "10000000000000000000000"}}

NumberInputs == {NatDigits(n) : n \in 0..MaxSmallNumber} \cup LargeNumbers

NumberForms == {"decimal", "hex", "binary", "octal"}

InitNumber ==
    /\ op = "input"
    /\ arg \in {[value |-> n, text |-> Show(n)] : n \in NumberInputs}
    /\ ret = <<>>
    /\ env = <<>>

CallNumberToAllBases ==
    /\ op = "input"
    /\ op' = "numberToAllBases"
    /\ ret' = NumberToAllBases(arg.value)
    /\ UNCHANGED <<arg, env>>

\* parseNumber of one form of numberToAllBases(n)
CallParseNumber ==
    /\ op = "numberToAllBases"
    /\ op' = "parseNumber(numberToAllBases)"
    /\ \E form \in NumberForms :
           ret' = [form |-> form, text |-> Show(ret[form]), back |-> ParseNumber(ret[form])]
    /\ UNCHANGED <<arg, env>>

NextNumber == CallNumberToAllBases \/ CallParseNumber

SpecNumber == InitNumber /\ [][NextNumber]_vars

\* a prefix followed by at least one character, all of them in a class
IsPrefixed(s, prefix, class) ==
    /\ Len(s) > 2 /\ SubSeq(s, 1, 2) = Str(prefix)
    /\ \A i \in 3..Len(s) : s[i] \in class

\* the hex form is '0x' plus uppercase digits, the binary and octal forms are
\* '0b' and '0o' plus digits
FormsWellShaped ==
    /\ IsPrefixed(ret.hex, "0x", Digits \cup (Ch["A"]..Ch["F"]))
    /\ IsPrefixed(ret.binary, "0b", {Ch["0"], Ch["1"]})
    /\ IsPrefixed(ret.octal, "0o", Ch["0"]..Ch["7"])

\* n < 10^21
BelowExponential == Len(arg.value) <= 21

\* C12 as amended: for every integer n with 0 <= n < 10^21, applying parseNumber
\* to each of numberToAllBases(n).hex, .binary, .octal and .decimal returns n; for
\* every integer n >= 0 the hex form is '0x' plus uppercase digits, the binary and
\* octal forms are '0b'/'0o' plus digits, and parseNumber of these three returns n.
C12_RoundTripBelowExponential ==
    /\ op = "numberToAllBases" => FormsWellShaped
    /\ (op = "parseNumber(numberToAllBases)" /\ (BelowExponential \/ ret.form # "decimal")) =>
           ret.back = Number(FALSE, arg.value)

\* C12: for every integer n >= 0, applying parseNumber to each of
\* numberToAllBases(n).hex, .binary, .octal and .decimal returns n; the hex form
\* is '0x' plus uppercase digits, the binary and octal forms are '0b'/'0o' plus
\* digits.
C12_RoundTripOfEveryInteger ==
    /\ op = "numberToAllBases" => FormsWellShaped
    /\ op = "parseNumber(numberToAllBases)" => ret.back = Number(FALSE, arg.value)

\* the hex form of a number beyond 32 bits, with a letter among its digits, has
\* been parsed back
C12_Witness_LargeHex ==
    /\ op = "parseNumber(numberToAllBases)"
    /\ ret.form = "hex"
    /\ arg.value = Str("4294967295")
    /\ ret.text = "0xFFFFFFFF"
    /\ ret.back = Number(FALSE, arg.value)

(***************************************************************************)
(* encodeBase64 and decodeBase64, with the environment's                   *)
(* encodeURIComponent, escape, unescape and btoa.                          *)
(***************************************************************************)

\* %XX with uppercase digits
PercentByte(b) == <<Ch["%"], UpperOf(HexDigitChars[(b \div 16) + 1]), UpperOf(HexDigitChars[(b % 16) + 1])>>

\* the UTF-8 bytes of a code point
Utf8(v) ==
    IF v < 128 THEN <<v>>
    ELSE IF v < 2048 THEN <<192 + (v \div 64), 128 + (v % 64)>>
    ELSE IF v < 65536 THEN <<224 + (v \div 4096), 128 + ((v \div 64) % 64), 128 + (v % 64)>>
    ELSE <<240 + (v \div 262144), 128 + ((v \div 4096) % 64),
           128 + ((v \div 64) % 64), 128 + (v % 64)>>

\* the characters encodeURIComponent leaves alone
UriUnreserved == Letters \cup Digits \cup {Ch[c] : c \in {"-", "_", ".", "!", "~", "*", "'", "(", ")"}}

\* encodeURIComponent(s): [ok |-> FALSE] is the URIError of a lone surrogate
EncodeURIComponent(s) ==
    LET Escaped(bytes) == Flatten([k \in 1..Len(bytes) |-> PercentByte(bytes[k])])
        Piece(i) ==
            IF s[i] \in UriUnreserved THEN <<s[i]>>
            ELSE IF s[i] \in LowSurrogates THEN <<>>
            ELSE IF s[i] \in HighSurrogates
            THEN Escaped(Utf8(65536 + (s[i] - 55296) * 1024 + (s[i + 1] - 56320)))
            ELSE Escaped(Utf8(s[i]))
    IN  IF \E i \in 1..Len(s) : IsLoneSurrogate(s, i) THEN [ok |-> FALSE, s |-> <<>>]
        ELSE [ok |-> TRUE, s |-> Flatten([i \in 1..Len(s) |-> Piece(i)])]

\* unescape(s): every %uXXXX and, failing that, every %XX gives its code unit;
\* no escape starts inside another (an escape has one "%", its first character)
Unescape(s) ==
    LET IsLongAt(p) ==
            /\ p >= 1 /\ p + 5 <= Len(s) /\ s[p] = Ch["%"] /\ s[p + 1] = Ch["u"]
            /\ \A k \in 2..5 : s[p + k] \in HexDigits
        IsShortAt(p) == p >= 1 /\ ~IsLongAt(p) /\ IsEscapeAt(s, p)
        marked == [i \in 1..Len(s) |->
                     IF IsLongAt(i) THEN RadixValue(SubSeq(s, i + 2, i + 5), 16)
                     ELSE IF IsShortAt(i) THEN EscapeByte(s, i)
                     ELSE IF (\E k \in 1..5 : IsLongAt(i - k)) \/ (\E k \in 1..2 : IsShortAt(i - k))
                     THEN -1
                     ELSE s[i]]
    IN  SelectSeq(marked, LAMBDA c : c # -1)

\* the characters escape leaves alone
EscapeUnreserved == Letters \cup Digits \cup {Ch[c] : c \in {"@", "*", "_", "+", "-", ".", "/"}}

\* escape(s)
Escape(s) ==
    LET Piece(c) ==
            IF c \in EscapeUnreserved THEN <<c>>
            ELSE IF c < 256 THEN PercentByte(c)
            ELSE <<Ch["%"], Ch["u"]>> \o ToUpperCase(PaddedDigits(c, 16, 4))
    IN  Flatten([i \in 1..Len(s) |-> Piece(s[i])])

\* btoa(s): [ok |-> FALSE] is the InvalidCharacterError of a code unit above 255
BtoaOf(s) ==
    IF \E i \in 1..Len(s) : s[i] > 255 THEN [ok |-> FALSE, s |-> <<>>]
    ELSE [ok |-> TRUE, s |-> Btoa(s)]

\* encodeBase64: threw tells that the exception of the catch block left it
EncodeBase64(input) ==
    LET Caught(fallback) ==
            IF fallback.ok THEN [threw |-> FALSE, s |-> fallback.s]
            ELSE [threw |-> TRUE, s |-> <<>>]
        Tried(encoded) ==
            IF encoded.ok THEN [threw |-> FALSE, s |-> Btoa(Unescape(encoded.s))]
            ELSE Caught(BtoaOf(input))
    IN  Tried(EncodeURIComponent(input))

InvalidBase64 == Str("Invalid Base64")

\* decodeBase64
DecodeBase64(input) ==
    LET Caught(bytes) == IF bytes.ok THEN bytes.s ELSE InvalidBase64
        Text(bytes) ==
            LET Of(decoded) == IF decoded.ok THEN decoded.s ELSE Caught(Atob(input))
            IN  IF bytes.ok THEN Of(DecodeURIComponent(Escape(bytes.s))) ELSE Caught(Atob(input))
    IN  Text(Atob(FromUrlSafe(input)))

\* texts of up to MaxTextLength code units
MaxTextLength == 3

\* ASCII, Latin-1, two- and three-byte characters, a surrogate pair (U+1F600)
\* and its halves, which alone are lone surrogates
TextUnits == {0, Ch[" "], Ch["%"], Ch["+"], Ch["a"], Ch["~"], 233, 255, 256, 8364, 55357, 56832}

Base64Texts ==
    {Str(w) : w \in {"", "YQ==", "YQ", "YWJj", "w6k=", "6Q==", "4oKs", "8J+YgA==", "_-8=",
                     "__8=", "a", "abcde", "!!!!", "YQ=", "Y Q = =", "=", "====", "%%%%",
                     "Invalid Base64", "/+8=", "7aCA", "wMA="}}

InitBase64 ==
    /\ op = "input"
    /\ arg \in {Shown(JStr(s)) : s \in StringsUpTo(TextUnits, MaxTextLength) \cup Base64Texts}
    /\ ret = <<>>
    /\ env = <<>>

CallEncodeBase64 ==
    /\ op = "input"
    /\ op' = "encodeBase64"
    /\ ret' = EncodeBase64(arg.value.s)
    /\ UNCHANGED <<arg, env>>

\* decodeBase64(encodeBase64(s)), when encodeBase64 has returned
CallDecodeEncoded ==
    /\ op = "encodeBase64" /\ ~ret.threw
    /\ op' = "decodeBase64(encodeBase64)"
    /\ ret' = [threw |-> FALSE, s |-> DecodeBase64(ret.s)]
    /\ UNCHANGED <<arg, env>>

CallDecodeBase64 ==
    /\ op = "input"
    /\ op' = "decodeBase64"
    /\ ret' = [threw |-> FALSE, s |-> DecodeBase64(arg.value.s)]
    /\ UNCHANGED <<arg, env>>

NextBase64 == CallEncodeBase64 \/ CallDecodeEncoded \/ CallDecodeBase64

SpecBase64 == InitBase64 /\ [][NextBase64]_vars

\* atob rejects the input, with '-' and '_' read as '+' and '/'
Undecodable(input) == ~Atob(FromUrlSafe(input)).ok

\* C13: for every input string s (including multi-byte, non-Latin-1 text),
\* encodeBase64(s) returns without throwing and decodeBase64(encodeBase64(s))
\* equals s; decodeBase64 of an undecodable input returns the placeholder
\* 'Invalid Base64' instead of throwing.
C13_Base64TextRoundTrip ==
    /\ op = "encodeBase64" => ~ret.threw
    /\ op = "decodeBase64(encodeBase64)" => ret.s = arg.value.s
    /\ (op = "decodeBase64" /\ Undecodable(arg.value.s)) => ret.s = InvalidBase64

(***************************************************************************)
(* The URL-encoded detector on texts of percent signs, hexadecimal digits  *)
(* and other characters, alone and as a part of detect.                    *)
(***************************************************************************)

\* texts of up to MaxUrlLength characters are drawn
MaxUrlLength == 6

\* '%', a digit, a letter that is a hexadecimal digit and one that is not
UrlAlphabet == {Ch["%"], Ch["4"], Ch["a"], Ch["G"]}

\* escapes of multi-byte characters, well formed and not, and texts to trim
UrlTexts ==
    {Str(w) : w \in {"%C3%A9", "%c3%a9", "%E4%B8%AD", "%C0%80", "%E4%B8", "%ED%A0%80",
                     "%F0%9F%98%80", " %41%42 ", "a%20b%20c", "a%20b", "%25%25", "%2525",
                     "100%25%", "50% and 60%", "q=a%26b&r=%3D", "%41\n%42", " %41 ",
                     "%C3%A9%", "%C3", "%FF%FE", "%7B%22a%22%3A1%7D"}}

InitUrl ==
    /\ op = "input"
    /\ arg \in {Shown(JStr(s)) : s \in StringsUpTo(UrlAlphabet, MaxUrlLength) \cup UrlTexts}
    /\ ret = <<>>
    /\ env = <<>>

CallDetectUrlEncoded ==
    /\ op = "input"
    /\ op' = "detectUrlEncoded"
    /\ ret' = DetectUrlEncoded(arg.value.s)
    /\ UNCHANGED <<arg, env>>

CallDetectUrl ==
    /\ op = "input"
    /\ op' = "detect"
    /\ ret' = Detect(arg.value)
    /\ UNCHANGED <<arg, env>>

NextUrl == CallDetectUrlEncoded \/ CallDetectUrl

SpecUrl == InitUrl /\ [][NextUrl]_vars

\* the number of well-formed %XX escape sequences of a text
EscapeCount(t) == Cardinality({p \in 1..Len(t) : IsEscapeAt(t, p)})

\* a '%' that opens no %XX, or escapes that are no UTF-8: nothing to decode to
HasUndecodablePercent(t) == Includes(t, Ch["%"]) /\ ~DecodeURIComponent(t).ok

\* C14: every input that the URL-encoded detector accepts contains at least two
\* well-formed %XX escape sequences and its percent-decoded form differs from the
\* trimmed input; an input with a single %XX escape, or with '%' characters that
\* do not form decodable escapes, is not classified 'url' and no exception escapes
\* the detector.
C14_UrlEncodedDetection ==
    /\ op = "detectUrlEncoded" =>
           /\ ~ret.threw
           /\ ret.hit =>
                  /\ ret.type = "url"
                  /\ EscapeCount(Trim(arg.value.s)) >= 2
                  /\ ret.parsed = DecodeURIComponent(Trim(arg.value.s)).s
                  /\ ret.parsed # Trim(arg.value.s)
           /\ (EscapeCount(Trim(arg.value.s)) = 1 \/ HasUndecodablePercent(Trim(arg.value.s))) =>
                  ~ret.hit
    /\ op = "detect" =>
           /\ ~ret.threw
           /\ (EscapeCount(Trim(arg.value.s)) = 1 \/ HasUndecodablePercent(Trim(arg.value.s))) =>
                  ret.type # "url"

\* the detector has accepted a text of exactly two escapes that form one
\* two-byte character
C14_Witness_TwoEscapes ==
    /\ op = "detectUrlEncoded"
    /\ ret.hit
    /\ EscapeCount(arg.value.s) = 2
    /\ ret.parsed = <<233>>

(***************************************************************************)
(* The history of pastes (src/lib/history.ts).  The environment is         *)
(*   storage   the value of localStorage under HISTORY_KEY: absent, or the *)
(*             list of items whose JSON text is stored (the items hold     *)
(*             strings and numbers only, which JSON.stringify and          *)
(*             JSON.parse give back as they are);                          *)
(*   quota     the number of items the storage has room for: a setItem of  *)
(*             more throws;                                                *)
(*   now       the clock, which a read may find advanced;                  *)
(*   writesOk  whether the localStorage.setItem of the last call succeeded;*)
(*   recent    the raw contents of the stored items, the one most recently *)
(*             passed to addToHistory first: the order the calls were made *)
(*             in, kept for the properties, that no call reads.            *)
(***************************************************************************)

MAX_ITEMS == 5

MAX_RAW_LENGTH == 10000

\* maxLength of createPreview
PreviewMaxLength == 60

NoItems == [present |-> FALSE, items |-> <<>>]

Stored(items) == [present |-> TRUE, items |-> items]

\* getHistory
GetHistory(storage) == IF storage.present THEN storage.items ELSE <<>>

\* s.replace(/\s+/g, ' '): the first character of every run of white space
\* becomes a space and the others go
CollapseSpace(s) ==
    LET marked == [i \in 1..Len(s) |->
                      IF s[i] \notin WhiteSpace THEN s[i]
                      ELSE IF i = 1 \/ s[i - 1] \notin WhiteSpace THEN Ch[" "]
                      ELSE -1]
    IN  SelectSeq(marked, LAMBDA c : c # -1)

\* Object.keys of a parsed object or array
ObjectKeys(v) ==
    IF v.t = "obj" THEN [i \in 1..Len(v.o) |-> v.o[i][1]]
    ELSE [i \in 1..Len(v.a) |-> IntToString(i - 1)]

\* `{ ${keys.slice(0, 3).join(', ')}${keys.length > 3 ? '...' : ''} }`
KeysPreview(keys) ==
    Str("{ ") \o Join(SubSeq(keys, 1, Min(3, Len(keys))), Str(", "))
    \o (IF Len(keys) > 3 THEN Str("...") ELSE <<>>) \o Str(" }")

\* createPreview; the text of a date, which depends on the locale, is left out
CreatePreview(raw, type) ==
    LET Cut(preview) ==
            IF Len(preview) > PreviewMaxLength
            THEN SubSeq(preview, 1, PreviewMaxLength - 3) \o Str("...")
            ELSE preview
        OfJson(parsed) ==
            IF parsed.ok /\ parsed.v.t \in {"obj", "arr"} THEN KeysPreview(ObjectKeys(parsed.v))
            ELSE CollapseSpace(Trim(raw))
    IN  IF type = "json" THEN Cut(OfJson(JsonParse(raw)))
        ELSE IF type = "color" THEN Cut(Trim(raw))
        ELSE IF type = "timestamp" THEN Str("(date)")
        ELSE Cut(CollapseSpace(Trim(raw)))

\* raw.slice(0, MAX_RAW_LENGTH)
SliceRaw(raw) == SubSeq(raw, 1, Min(Len(raw), MAX_RAW_LENGTH))

\* history.findIndex(...): 0 when there is none
FindIndex(history, raw) ==
    IF \E i \in 1..Len(history) : history[i].raw = raw
    THEN CHOOSE i \in 1..Len(history) :
             history[i].raw = raw /\ \A j \in 1..(i - 1) : history[j].raw # raw
    ELSE 0

\* addToHistory's list when the stored items are compared with the whole of raw
UnshiftedWholeRaw(history, raw, type, idTime, random, stampTime) ==
    LET Moved(i) ==
            <<[history[i] EXCEPT !.timestamp = stampTime]>>
            \o SubSeq(history, 1, i - 1) \o SubSeq(history, i + 1, Len(history))
        newItem == [id |-> <<idTime, random>>, type |-> type,
                    preview |-> CreatePreview(raw, type),
                    timestamp |-> stampTime, raw |-> SliceRaw(raw)]
    IN  IF FindIndex(history, raw) # 0 THEN Moved(FindIndex(history, raw))
        ELSE <<newItem>> \o history

\* the list addToHistory builds before it cuts it: the item of raw in front
Unshifted(history, raw, type, idTime, random, stampTime) ==
    LET Moved(i) ==
            <<[history[i] EXCEPT !.timestamp = stampTime]>>
            \o SubSeq(history, 1, i - 1) \o SubSeq(history, i + 1, Len(history))
        newItem == [id |-> <<idTime, random>>, type |-> type,
                    preview |-> CreatePreview(raw, type),
                    timestamp |-> stampTime, raw |-> SliceRaw(raw)]
    IN  IF FindIndex(history, SliceRaw(raw)) # 0 THEN Moved(FindIndex(history, SliceRaw(raw)))
        ELSE <<newItem>> \o history

\* localStorage.setItem(HISTORY_KEY, JSON.stringify(list)) throws when the list
\* is more than the storage takes: quota is the number of items it has room for
SetItemThrows(quota, list) == Len(list) > quota

\* addToHistory that stores the whole list
AddToHistoryUncut(storage, raw, type, idTime, random, stampTime, quota) ==
    LET Written(list) ==
            [ret |-> list[1],
             written |-> ~SetItemThrows(quota, list),
             storage |-> IF ~SetItemThrows(quota, list) THEN Stored(list)
                         ELSE IF ~SetItemThrows(quota, <<list[1]>>) THEN Stored(<<list[1]>>)
                         ELSE NoItems]
    IN  Written(Unshifted(GetHistory(storage), raw, type, idTime, random, stampTime))

\* addToHistory: the item it returns, whether its first setItem succeeded, and
\* the storage it leaves (after a failed write: the first item alone, or nothing
\* when the second setItem has failed as well)
AddToHistory(storage, raw, type, idTime, random, stampTime, quota) ==
    LET Written(trimmed) ==
            [ret |-> trimmed[1],
             written |-> ~SetItemThrows(quota, trimmed),
             storage |-> IF ~SetItemThrows(quota, trimmed) THEN Stored(trimmed)
                         ELSE IF ~SetItemThrows(quota, <<trimmed[1]>>) THEN Stored(<<trimmed[1]>>)
                         ELSE NoItems]
        Cut(list) == Written(SubSeq(list, 1, Min(MAX_ITEMS, Len(list))))
    IN  Cut(Unshifted(GetHistory(storage), raw, type, idTime, random, stampTime))

\* removeFromHistory: the list it writes
RemoveFromHistory(storage, id) == SelectSeq(GetHistory(storage), LAMBDA item : item.id # id)

\* the pastes, each with the type detect gives it
HistoryPastes ==
    << [raw |-> Str("hello world"), type |-> "text"],
       [raw |-> Str("{\"a\":1}"), type |-> "json"],
       [raw |-> Str(" #1a2b3c "), type |-> "color"],
       [raw |-> Str("  two \n\t lines  "), type |-> "text"],
       [raw |-> Str("[1,2]"), type |-> "json"],
       [raw |-> Repeat(Ch["x"], PreviewMaxLength + 1), type |-> "text"] >>

\* the pastes drawn: one more than the history keeps
PasteCount == MAX_ITEMS + 1

\* the values of the clock: it stands still over the calls, so that the ids of
\* two new items differ by their random suffix alone
HistoryTimes == {0}

\* the outcomes of Math.random().toString(36).slice(2, 9)
RandomSuffixes == {0, 1}

\* the room of the storage: none (every write throws), one item, three items,
\* or more than the history ever asks for
StorageQuotas == {0, 1, 3, 2 * MAX_ITEMS}

\* a read of the clock at or after time t
ClockReads(t) == {u \in HistoryTimes : u >= t}

\* the raw contents of the stored items
StoredRaws(storage) == {GetHistory(storage)[i].raw : i \in 1..Len(GetHistory(storage))}

\* recent after a call that leaves a storage: what is not stored any more goes
Kept(recent, storage) == SelectSeq(recent, LAMBDA r : r \in StoredRaws(storage))

\* recent after a call of addToHistory(raw) that leaves a storage
Touched(recent, raw, storage) ==
    Kept(<<raw>> \o SelectSeq(recent, LAMBDA r : r # raw), storage)

InitHistory ==
    /\ op = "start"
    /\ arg = <<>>
    /\ ret = <<>>
    /\ \E quota \in StorageQuotas :
           env = [storage |-> NoItems, quota |-> quota, now |-> 0,
                  writesOk |-> TRUE, recent |-> <<>>]

CallAddToHistory ==
    \E k \in 1..PasteCount, random \in RandomSuffixes :
      \E idTime \in ClockReads(env.now) :
        \E stampTime \in ClockReads(idTime) :
          LET paste == HistoryPastes[k]
              Done(call) ==
                  /\ op' = "addToHistory"
                  /\ arg' = [raw |-> paste.raw, type |-> paste.type]
                  /\ ret' = call.ret
                  /\ env' = [storage |-> call.storage, quota |-> env.quota,
                             now |-> stampTime, writesOk |-> call.written,
                             recent |-> Touched(env.recent, SliceRaw(paste.raw), call.storage)]
          IN  \* an item that is there already takes no id: no read, no draw
              /\ FindIndex(GetHistory(env.storage), SliceRaw(paste.raw)) # 0 =>
                     idTime = env.now /\ random = 0
              /\ Done(AddToHistory(env.storage, paste.raw, paste.type,
                                   idTime, random, stampTime, env.quota))

\* removeFromHistory(id) for the id of a stored item or an id that is not stored;
\* when its setItem throws, the call throws and the storage is as it was
CallRemoveFromHistory ==
    \E id \in {item.id : item \in {GetHistory(env.storage)[i] : i \in 1..Len(GetHistory(env.storage))}}
              \cup {<<0, 2>>} :
        LET Done(list) ==
                /\ op' = "removeFromHistory"
                /\ arg' = id
                /\ ret' = [threw |-> SetItemThrows(env.quota, list)]
                /\ env' = [env EXCEPT !.storage = IF SetItemThrows(env.quota, list)
                                                  THEN env.storage ELSE Stored(list),
                                      !.writesOk = ~SetItemThrows(env.quota, list),
                                      !.recent = Kept(env.recent, IF SetItemThrows(env.quota, list)
                                                                  THEN env.storage ELSE Stored(list))]
        IN  Done(RemoveFromHistory(env.storage, id))

\* clearHistory: localStorage.removeItem(HISTORY_KEY)
CallClearHistory ==
    /\ op' = "clearHistory"
    /\ arg' = <<>>
    /\ ret' = <<>>
    /\ env' = [env EXCEPT !.storage = NoItems, !.writesOk = TRUE, !.recent = <<>>]

NextHistory == CallAddToHistory \/ CallRemoveFromHistory \/ CallClearHistory

SpecHistory == InitHistory /\ [][NextHistory]_vars

\* the place of a raw content in recent
RecentPlace(raw) == CHOOSE i \in 1..Len(env.recent) : env.recent[i] = raw

\* C15: after any sequence of addToHistory, removeFromHistory and clearHistory
\* calls (with storage writes succeeding), the stored history never holds more
\* than 5 items, its items are ordered most recently added or re-added first, and
\* the item returned by addToHistory is the first item of the stored history.
C15_HistoryBoundAndOrder ==
    env.writesOk =>
        LET history == GetHistory(env.storage)
        IN  /\ Len(history) <= 5
            /\ \A i, j \in 1..Len(history) :
                   i < j => RecentPlace(history[i].raw) < RecentPlace(history[j].raw)
            /\ op = "addToHistory" =>
                   /\ history # <<>>
                   /\ ret = history[1]
                   /\ ret.raw = SliceRaw(arg.raw)

\* a sixth paste has pushed the oldest one out, and a stored paste added again
\* has come back to the front of the five
C15_Witness_FullAndReadded ==
    /\ env.writesOk
    /\ op = "addToHistory"
    /\ Len(GetHistory(env.storage)) = 5
    /\ ret.raw = HistoryPastes[3].raw
    /\ HistoryPastes[1].raw \notin StoredRaws(env.storage)
    /\ GetHistory(env.storage)[2].raw = HistoryPastes[6].raw

(***************************************************************************)
(* Share links (src/lib/share.ts).  The environment is window.location:    *)
(*   origin, pathname   of the page;                                       *)
(*   search             its query string;                                  *)
(*   shared             whether the page was opened from the link that     *)
(*                      generateShareLink returned (kept for the           *)
(*                      properties, no call reads it).                     *)
(* JSON.stringify is the well-formed one (a lone surrogate is written as   *)
(* an escape); a property whose value is undefined is an absent property.  *)
(***************************************************************************)

MAX_SHARE_LENGTH == 4000

\* s.replace(/=+$/, '')
StripTrailingEquals(s) ==
    LET kept == {i \in 1..Len(s) : s[i] # Ch["="]}
    IN  IF kept = {} THEN <<>>
        ELSE SubSeq(s, 1, CHOOSE i \in kept : \A j \in kept : j <= i)

\* toBase64Url: [ok |-> FALSE] is the URIError of encodeURIComponent
ToBase64Url(str) ==
    LET Of(encoded) ==
            IF ~encoded.ok THEN [ok |-> FALSE, s |-> <<>>]
            ELSE [ok |-> TRUE,
                  s |-> StripTrailingEquals(
                            ReplaceChar(ReplaceChar(Btoa(Unescape(encoded.s)), Ch["+"], Ch["-"]),
                                        Ch["/"], Ch["_"]))]
    IN  Of(EncodeURIComponent(str))

\* fromBase64Url: [ok |-> FALSE] is the exception of atob or decodeURIComponent
FromBase64Url(base64) ==
    LET Of(decoded) ==
            IF ~decoded.ok THEN [ok |-> FALSE, s |-> <<>>]
            ELSE DecodeURIComponent(Escape(decoded.s))
        Padded(padded) == padded \o Repeat(Ch["="], (4 - (Len(padded) % 4)) % 4)
    IN  Of(Atob(Padded(FromUrlSafe(base64))))

\* a ShareData value: type is optional
ShareData(text, type) ==
    JObj(<< <<Str("text"), JStr(text)>> >>
         \o (IF type = "" THEN <<>> ELSE << <<Str("type"), JStr(Str(type))>> >>))

\* generateShareLink that tests no length
GenerateShareLinkAnyLength(data, origin, pathname) ==
    LET Of(encoded) ==
            IF ~encoded.ok THEN [threw |-> TRUE, v |-> JUndefined]
            ELSE [threw |-> FALSE, v |-> JStr(origin \o pathname \o Str("?d=") \o encoded.s)]
    IN  Of(ToBase64Url(Stringify(data, 0, 0)))

\* generateShareLink: null, or the link
GenerateShareLink(data, origin, pathname) ==
    LET Of(encoded) ==
            IF ~encoded.ok THEN [threw |-> TRUE, v |-> JUndefined]
            ELSE [threw |-> FALSE, v |-> JStr(origin \o pathname \o Str("?d=") \o encoded.s)]
        From(json) ==
            IF Len(json) > MAX_SHARE_LENGTH THEN [threw |-> FALSE, v |-> JNull]
            ELSE Of(ToBase64Url(json))
    IN  From(Stringify(data, 0, 0))

\* the decoding of a name or a value of a query string: "+" is a space, %XX is
\* a byte, and the bytes are read as UTF-8 (U+FFFD for what is no UTF-8)
FormDecode(piece) ==
    LET s == ReplaceChar(piece, Ch["+"], Ch[" "])
        IsLeadAt(p) ==
            /\ p >= 1 /\ IsEscapeAt(s, p) /\ Utf8Length(EscapeByte(s, p)) > 0
            /\ Utf8CodePoint(s, p, Utf8Length(EscapeByte(s, p))) >= 0
        Follows(p) == \E k \in 1..3 : IsLeadAt(p - 3 * k) /\ Utf8Length(EscapeByte(s, p - 3 * k)) > k
        Inside(i) == \E k \in 1..2 : i - k >= 1 /\ IsEscapeAt(s, i - k)
        Piece(i) ==
            IF IsEscapeAt(s, i)
            THEN IF EscapeByte(s, i) < 128 THEN <<EscapeByte(s, i)>>
                 ELSE IF IsLeadAt(i) THEN Utf16(Utf8CodePoint(s, i, Utf8Length(EscapeByte(s, i))))
                 ELSE IF Follows(i) THEN <<>>
                 ELSE <<65533>>
            ELSE IF Inside(i) THEN <<>>
            ELSE <<s[i]>>
    IN  Flatten([i \in 1..Len(s) |-> Piece(i)])

\* new URLSearchParams(search).get(name): [ok |-> FALSE] is the null of a name
\* that the query string does not have
SearchParamsGet(search, name) ==
    LET query == IF search # <<>> /\ search[1] = Ch["?"] THEN Tail(search) ELSE search
        pairs == SelectSeq(Split(query, Ch["&"]), LAMBDA piece : piece # <<>>)
        NameOf(piece) == FormDecode(Split(piece, Ch["="])[1])
        ValueOf(piece) == FormDecode(SubSeq(piece, Len(Split(piece, Ch["="])[1]) + 2, Len(piece)))
        named == SelectSeq(pairs, LAMBDA piece : NameOf(piece) = name)
    IN  IF named = <<>> THEN [ok |-> FALSE, s |-> <<>>]
        ELSE [ok |-> TRUE, s |-> ValueOf(named[1])]

\* parseShareLink: the value of the "d" parameter, or null
ParseShareLink(search) ==
    LET Read(parsed) == IF parsed.ok THEN [threw |-> FALSE, v |-> parsed.v]
                          ELSE [threw |-> FALSE, v |-> JNull]
        Of(json) == IF json.ok THEN Read(JsonParse(json.s))
                    ELSE [threw |-> FALSE, v |-> JNull]
        From(encoded) == IF ~encoded.ok \/ encoded.s = <<>> THEN [threw |-> FALSE, v |-> JNull]
                         ELSE Of(FromBase64Url(encoded.s))
    IN  From(SearchParamsGet(search, Str("d")))

\* window.location.search of a page opened from a link
SearchOf(url) ==
    IF Includes(url, Ch["?"])
    THEN SubSeq(url, CHOOSE i \in 1..Len(url) : url[i] = Ch["?"] /\ \A j \in 1..(i - 1) : url[j] # Ch["?"],
                Len(url))
    ELSE <<>>

\* the overhead of the text in JSON.stringify({text}) and JSON.stringify({text, type: 'json'})
TextOverhead == Len(Str("{\"text\":\"\"}"))

TypeOverhead == Len(Str(",\"type\":\"json\""))

\* short texts: plain, multi-byte, a surrogate pair, lone surrogates, characters
\* JSON escapes, characters of a query string, and bytes whose base64 has + and /
ShareTexts ==
    { <<>>, Str("hello"), Str("a"), Str("ab"), <<233>>, <<8364, 97>>, <<55357, 56832>>,
      <<55357>>, <<97, 56832>>, Str("\"\\"), <<10, 9, 1>>, Str("a+b/c?d=e&f#g=%41"),
      Str(">>>"), Str("???"), Str("{\"text\":1}") }

\* texts at the limit: JSON of MAX_SHARE_LENGTH characters and of one more
LongShareData ==
    { ShareData(Repeat(Ch["a"], MAX_SHARE_LENGTH - TextOverhead), ""),
      ShareData(Repeat(Ch["a"], MAX_SHARE_LENGTH - TextOverhead + 1), ""),
      ShareData(Repeat(Ch["a"], MAX_SHARE_LENGTH - TextOverhead - 1) \o <<8364>>, ""),
      ShareData(Repeat(Ch["a"], MAX_SHARE_LENGTH - TextOverhead - TypeOverhead), "json"),
      ShareData(Repeat(Ch["a"], MAX_SHARE_LENGTH - TextOverhead - TypeOverhead + 1), "json") }

ShareInputs ==
    {ShareData(text, type) : text \in ShareTexts, type \in {"", "json", "text"}} \cup LongShareData

\* query strings of a page that was not opened from a generated link
SearchInputs ==
    { <<>>, Str("?"), Str("?x=1"), Str("?d"), Str("?d="), Str("?x=1&d="), Str("?dd=e30"),
      Str("?d=e30"), Str("?x=1&d=e30&d=!"), Str("?d=!!!!"), Str("?d=e"), Str("?d=e3"),
      Str("?d=bnVsbA"), Str("?d=_w"), Str("?d=eyJ0ZXh0IjoiaGkifQ"), Str("?d=eyJ0ZXh0IjoiaGkifQ=="),
      Str("?d=eyJ0ZXh0Ijo"), Str("?d=e+30"), Str("?d=%650"), Str("?%64=e30"), Str("?d=%FF") }

PageOrigin == Str("https://alchemy.example")

PagePathname == Str("/")

\* before the call: the caller holds a ShareData value and the page has a
\* query string
InitShare ==
    /\ op = "input"
    /\ ret = <<>>
    /\ \/ /\ arg \in ShareInputs
          /\ env = [origin |-> PageOrigin, pathname |-> PagePathname, search |-> <<>>, shared |-> FALSE]
       \/ /\ arg = ShareData(Str("hello"), "")
          /\ \E search \in SearchInputs :
                 env = [origin |-> PageOrigin, pathname |-> PagePathname, search |-> search, shared |-> FALSE]

CallGenerateShareLink ==
    /\ op = "input"
    /\ op' = "generateShareLink"
    /\ ret' = GenerateShareLink(arg, env.origin, env.pathname)
    /\ UNCHANGED <<arg, env>>

\* the link is opened: the page's query string is the link's
OpenShareLink ==
    /\ op = "generateShareLink"
    /\ ~ret.threw
    /\ ret.v.t = "str"
    /\ op' = "open"
    /\ env' = [env EXCEPT !.search = SearchOf(ret.v.s), !.shared = TRUE]
    /\ UNCHANGED <<arg, ret>>

CallParseShareLink ==
    /\ op \in {"input", "open"}
    /\ op' = "parseShareLink"
    /\ ret' = ParseShareLink(env.search)
    /\ UNCHANGED <<arg, env>>

NextShare == CallGenerateShareLink \/ OpenShareLink \/ CallParseShareLink

SpecShare == InitShare /\ [][NextShare]_vars

\* the "d" parameter of the page is absent (or empty), or it does not decode
\* to a JSON text
NoShareData(search) ==
    LET NoJson(json) == ~json.ok \/ ~JsonParse(json.s).ok
        Of(encoded) == ~encoded.ok \/ encoded.s = <<>> \/ NoJson(FromBase64Url(encoded.s))
    IN  Of(SearchParamsGet(search, Str("d")))

\* C16: generateShareLink(d) returns null exactly when JSON.stringify(d) is
\* longer than 4000 characters; otherwise it returns a URL whose "d" query
\* parameter, read back by parseShareLink, yields a value equal to d;
\* parseShareLink returns null, and never throws, when the parameter is absent
\* or not decodable.
C16_ShareLinkRoundTrip ==
    /\ op = "generateShareLink" =>
           /\ ~ret.threw
           /\ ret.v = JNull <=> Len(Stringify(arg, 0, 0)) > MAX_SHARE_LENGTH
           /\ ret.v # JNull => ret.v.t = "str"
    /\ op = "parseShareLink" =>
           /\ ~ret.threw
           /\ env.shared => ret.v = arg
           /\ NoShareData(env.search) => ret.v = JNull

\* a text whose JSON has exactly 4000 characters, and more bytes than that,
\* has come back from its link
C16_Witness_LongestLinkReadBack ==
    /\ op = "parseShareLink"
    /\ env.shared
    /\ Len(Stringify(arg, 0, 0)) = MAX_SHARE_LENGTH
    /\ arg.o[1][2].s[Len(arg.o[1][2].s)] = 8364
    /\ ret.v = arg

(***************************************************************************)
(* epochToHuman.  Times are exact integers, held as a sign and decimal     *)
(* digits; the inputs are integers a double holds exactly.  The            *)
(* environment gives the clock (Date.now()) and the Date object: a Date is *)
(* valid for a time value of at most 8.64e15 ms either way, an invalid     *)
(* Date prints as "Invalid Date" and its toISOString throws a RangeError.  *)
(* What a valid Date prints depends on the locale and the time zone: it is *)
(* kept as the name of the method and the time value.                      *)
(***************************************************************************)

\* the digit of a at place i from the right, place 0 the last
DigitAt(a, i) == IF i < Len(a) THEN a[Len(a) - i] - 48 ELSE 0

RECURSIVE AddFrom(_, _, _, _, _)
AddFrom(a, b, i, carry, acc) ==
    IF i >= Max(Len(a), Len(b)) THEN (IF carry = 0 THEN acc ELSE <<48 + carry>> \o acc)
    ELSE LET Step(v) == AddFrom(a, b, i + 1, v \div 10, <<48 + (v % 10)>> \o acc)
         IN  Step(DigitAt(a, i) + DigitAt(b, i) + carry)

\* a + b
BigAdd(a, b) == StripZeros(AddFrom(a, b, 0, 0, <<>>))

RECURSIVE SubFrom(_, _, _, _, _)
SubFrom(a, b, i, borrow, acc) ==
    IF i >= Len(a) THEN acc
    ELSE LET Step(v) == SubFrom(a, b, i + 1, IF v < 0 THEN 1 ELSE 0,
                                <<48 + (IF v < 0 THEN v + 10 ELSE v)>> \o acc)
         IN  Step(DigitAt(a, i) - DigitAt(b, i) - borrow)

\* a - b for a >= b
BigSub(a, b) == StripZeros(SubFrom(a, b, 0, 0, <<>>))

\* x - y
Minus(x, y) ==
    IF x.neg # y.neg THEN Number(x.neg, BigAdd(x.n, y.n))
    ELSE IF x.n = y.n THEN Number(FALSE, Str("0"))
    ELSE IF BigLeq(y.n, x.n) THEN Number(x.neg, BigSub(x.n, y.n))
    ELSE Number(~x.neg, BigSub(y.n, x.n))

\* x.toString()
NumberText(x) == (IF x.neg THEN Str("-") ELSE <<>>) \o ToString10(x.n)

\* Math.floor(x / d) for d > 0
FloorDiv(x, d) ==
    LET Of(dm) == IF ~x.neg THEN Number(FALSE, dm.q)
                  ELSE IF dm.r = 0 THEN Number(dm.q # Str("0"), dm.q)
                  ELSE Number(TRUE, BigAdd(dm.q, Str("1")))
    IN  Of(BigDivMod(x.n, d))

\* the largest time value of a Date
MaxTimeValue == Str("8640000000000000")

IsValidDate(ms) == ms.t = "big" /\ BigLeq(ms.n, MaxTimeValue)

\* what a method of a Date returns
DateText(method, ms) ==
    IF IsValidDate(ms) THEN [t |-> "date text", method |-> method, ms |-> ms]
    ELSE JStr(Str("Invalid Date"))

\* the relative time of epochToHuman
Relative(date, diff) ==
    LET seconds == FloorDiv(diff, 1000)
        minutes == FloorDiv(seconds, 60)
        hours   == FloorDiv(minutes, 60)
        days    == FloorDiv(hours, 24)
        Below(x, limit) == x.neg \/ (x.n # limit /\ BigLeq(x.n, limit))
        Ago(x, unit) ==
            JStr(NumberText(x) \o Str(" ") \o Str(unit)
                 \o (IF x.n # Str("1") /\ x.n # Str("0") THEN Str("s") ELSE <<>>) \o Str(" ago"))
    IN  IF diff.neg THEN JStr(Str("in the future"))
        ELSE IF Below(seconds, Str("60")) THEN JStr(NumberText(seconds) \o Str(" seconds ago"))
        ELSE IF Below(minutes, Str("60")) THEN Ago(minutes, "minute")
        ELSE IF Below(hours, Str("24")) THEN Ago(hours, "hour")
        ELSE IF Below(days, Str("30")) THEN Ago(days, "day")
        ELSE DateText("toLocaleDateString", date)

\* epochToHuman of a string at the clock value now: threw is the RangeError of
\* toISOString
EpochToHuman(input, now) ==
    LET Of(ms) ==
            IF ~IsValidDate(ms) THEN [threw |-> TRUE]
            ELSE [threw |-> FALSE,
                  local |-> DateText("toLocaleString", ms),
                  utc |-> DateText("toUTCString", ms),
                  iso |-> DateText("toISOString", ms),
                  relative |-> Relative(ms, Minus(Number(FALSE, now), ms)),
                  unix |-> FloorDiv(ms, 1000),
                  unixMs |-> ms]
        Scaled(num) ==
            IF num.t # "big" THEN Of(num)
            ELSE IF Len(NumberText(num)) = 10
            THEN Of(Number(num.neg /\ num.n # Str("0"), BigTimesPlus(num.n, 1000, 0)))
            ELSE Of(num)
    IN  Scaled(ParseInt(input, 10))

\* the values of the clock
ClockTimes == {Str("1700000000000"), Str("1700000000999")}

\* the limits of the relative times, in ms: 0, 1 s, 60 s, 60 min, 24 h and 30 days
TimeLimits == {Str("0"), Str("1000"), Str("60000"), Str("3600000"), Str("86400000"), Str("2592000000")}

\* differences at a limit, at twice and at three times a limit, and one ms
\* before and after
DiffSamples ==
    {Minus(Number(FALSE, BigTimesPlus(limit, k, 0)), around) :
         limit \in TimeLimits, k \in 1..3,
         around \in {Number(TRUE, Str("1")), Number(FALSE, Str("0")), Number(FALSE, Str("1"))}}

\* times in seconds (texts of 10 characters), and times at and past the ends of
\* the range of Date
OtherTimeInputs ==
    {Str(t) : t \in {"1700000000", "1699999999", "1699913600", "1800000000", "-170000000",
                     "0", "-1", "8640000000000000", "8640000000000001", "10000000000000000",
                     "-8640000000000000", "-8640000000000001"}}

TimeInputs(now) ==
    {NumberText(Minus(Number(FALSE, now), diff)) : diff \in DiffSamples} \cup OtherTimeInputs

\* before the call: the caller holds a text and the clock has a value
InitTime ==
    /\ op = "input"
    /\ ret = <<>>
    /\ \E now \in ClockTimes :
           /\ env = [now |-> now]
           /\ arg \in {Shown(JStr(text)) : text \in TimeInputs(now)}

CallEpochToHuman ==
    /\ op = "input"
    /\ op' = "epochToHuman"
    /\ ret' = EpochToHuman(arg.value.s, env.now)
    /\ UNCHANGED <<arg, env>>

NextTime == CallEpochToHuman

SpecTime == InitTime /\ [][NextTime]_vars

EndsWith(s, w) == Len(s) >= Len(w) /\ SubSeq(s, Len(s) - Len(w) + 1, Len(s)) = w

\* the kind of relative time a result reports
ReportedAs(relative) ==
    IF relative.t = "date text" THEN "date"
    ELSE IF relative.s = Str("in the future") THEN "future"
    ELSE IF EndsWith(relative.s, Str(" seconds ago")) THEN "seconds"
    ELSE IF EndsWith(relative.s, Str(" minute ago")) \/ EndsWith(relative.s, Str(" minutes ago")) THEN "minutes"
    ELSE IF EndsWith(relative.s, Str(" hour ago")) \/ EndsWith(relative.s, Str(" hours ago")) THEN "hours"
    ELSE IF EndsWith(relative.s, Str(" day ago")) \/ EndsWith(relative.s, Str(" days ago")) THEN "days"
    ELSE "other"

\* the kinds of relative time a difference in ms is in the range of
TimeBuckets(diff) ==
    LET Under(limit) == diff.n # Str(limit) /\ BigLeq(diff.n, Str(limit))
    IN    {b \in {"future"} : diff.neg}
     \cup {b \in {"seconds"} : ~diff.neg /\ Under("60000")}
     \cup {b \in {"minutes"} : ~diff.neg /\ ~Under("60000") /\ Under("3600000")}
     \cup {b \in {"hours"} : ~diff.neg /\ ~Under("3600000") /\ Under("86400000")}
     \cup {b \in {"days"} : ~diff.neg /\ ~Under("86400000") /\ Under("2592000000")}
     \cup {b \in {"date"} : ~diff.neg /\ ~Under("2592000000")}

\* C17: with diff = now - ms, epochToHuman reports "in the future" whenever
\* diff < 0, whatever the magnitude; otherwise seconds when diff is under 60 s,
\* minutes when under 60 min, hours when under 24 h, days when under 30 days and
\* a date string from 30 days on; every integer diff is in exactly one of them.
C17_RelativeTimeBuckets ==
    op = "epochToHuman" =>
        /\ ~ret.threw
        /\ TimeBuckets(Minus(Number(FALSE, env.now), ret.unixMs))
               = {ReportedAs(ret.relative)}

(***************************************************************************)
(* detectFileType.  A File is its MIME type, its name and its contents.    *)
(***************************************************************************)

File(type, name, contents) == [type |-> Str(type), name |-> Str(name), contents |-> Str(contents)]

\* detectFileType that looks at the name before the MIME type of an image
DetectFileTypeNameFirst(file) ==
    IF file.type = Str("application/json") \/ EndsWith(file.name, Str(".json")) THEN "json"
    ELSE IF file.type = Str("text/html") \/ EndsWith(file.name, Str(".html"))
            \/ EndsWith(file.name, Str(".htm")) THEN "html"
    ELSE IF file.type = Str("text/css") \/ EndsWith(file.name, Str(".css")) THEN "css"
    ELSE IF file.type = Str("text/javascript") \/ EndsWith(file.name, Str(".js"))
            \/ EndsWith(file.name, Str(".ts")) THEN "javascript"
    ELSE IF StartsWith(file.type, Str("image/")) THEN "image"
    ELSE "text"

DetectFileType(file) ==
    IF StartsWith(file.type, Str("image/")) THEN "image"
    ELSE IF file.type = Str("application/json") \/ EndsWith(file.name, Str(".json")) THEN "json"
    ELSE IF file.type = Str("text/html") \/ EndsWith(file.name, Str(".html"))
            \/ EndsWith(file.name, Str(".htm")) THEN "html"
    ELSE IF file.type = Str("text/css") \/ EndsWith(file.name, Str(".css")) THEN "css"
    ELSE IF file.type = Str("text/javascript") \/ EndsWith(file.name, Str(".js"))
            \/ EndsWith(file.name, Str(".ts")) THEN "javascript"
    ELSE "text"

\* MIME types, as a browser gives them (in lowercase; empty when it knows none)
FileTypes ==
    {"", "image/png", "image/svg+xml", "image/", "image", "application/json", "text/html",
     "text/css", "text/javascript", "application/javascript", "text/plain", "application/image/png"}

FileNames ==
    {"a.json", "a.html", "a.htm", "a.css", "a.js", "a.ts", "a.txt", "a.png", "a", "",
     ".json", "json", "a.JSON", "a.json.txt", "a.tsx", "a.html.css", "a.css.js", "a.mjs"}

FileContents == {"", "{\"a\":1}", "<html></html>"}

Files == {File(type, name, contents) : type \in FileTypes, name \in FileNames, contents \in FileContents}

\* before the call: the caller holds a file
InitFile ==
    /\ op = "input"
    /\ arg \in Files
    /\ ret = <<>>
    /\ env = <<>>

CallDetectFileType ==
    /\ op = "input"
    /\ op' = "detectFileType"
    /\ ret' = DetectFileType(arg)
    /\ UNCHANGED <<arg, env>>

NextFile == CallDetectFileType

SpecFile == InitFile /\ [][NextFile]_vars

\* the name of the file ends with one of the extensions
HasExtension(file, extensions) == \E e \in extensions : EndsWith(file.name, Str(e))

\* C18: detectFileType depends only on the MIME type and the name of the file,
\* never on its contents; it returns "image" for any image/* MIME type whatever
\* the extension, otherwise "json" for application/json or a .json name, "html"
\* for text/html or .html/.htm, "css" for text/css or .css, "javascript" for
\* text/javascript or .js/.ts, and "text" for every other file.
C18_FileClassification ==
    op = "detectFileType" =>
        LET isImage == StartsWith(arg.type, Str("image/"))
            isJson  == arg.type = Str("application/json") \/ HasExtension(arg, {".json"})
            isHtml  == arg.type = Str("text/html") \/ HasExtension(arg, {".html", ".htm"})
            isCss   == arg.type = Str("text/css") \/ HasExtension(arg, {".css"})
            isJs    == arg.type = Str("text/javascript") \/ HasExtension(arg, {".js", ".ts"})
        IN  /\ isImage => ret = "image"
            /\ ~isImage /\ isJson => ret = "json"
            /\ ~isImage /\ ~isJson /\ isHtml => ret = "html"
            /\ ~isImage /\ ~isJson /\ ~isHtml /\ isCss => ret = "css"
            /\ ~isImage /\ ~isJson /\ ~isHtml /\ ~isCss /\ isJs => ret = "javascript"
            /\ ~isImage /\ ~isJson /\ ~isHtml /\ ~isCss /\ ~isJs => ret = "text"
            /\ \A file \in Files :
                   file.type = arg.type /\ file.name = arg.name => DetectFileType(file) = ret

\* an image whose name has the extension of another type
C18_Witness_ImageNamedJson ==
    /\ op = "detectFileType"
    /\ arg.type = Str("image/png")
    /\ arg.name = Str("a.json")
    /\ arg.contents # <<>>
    /\ ret = "image"

(***************************************************************************)
(* generateLorem.  The outcomes of Math.random() are given by the          *)
(* environment, as the numbers the code makes of them: wordDraws[i] is     *)
(* Math.floor(Math.random() * LOREM_WORDS.length) of the i-th word, and    *)
(* lengthDraws is the stream of Math.floor(Math.random() * 7) that follows *)
(* the words, of which the code reads the first.                           *)
(***************************************************************************)

LOREM_WORDS ==
    <<  Str("lorem"), Str("ipsum"), Str("dolor"), Str("sit"), Str("amet"),
        Str("consectetur"), Str("adipiscing"), Str("elit"), Str("sed"), Str("do"),
        Str("eiusmod"), Str("tempor"), Str("incididunt"), Str("ut"), Str("labore"),
        Str("et"), Str("dolore"), Str("magna"), Str("aliqua"), Str("enim"),
        Str("ad"), Str("minim"), Str("veniam"), Str("quis"), Str("nostrud"),
        Str("exercitation"), Str("ullamco"), Str("laboris"), Str("nisi"),
        Str("aliquip"), Str("ex"), Str("ea"), Str("commodo"), Str("consequat"),
        Str("duis"), Str("aute"), Str("irure"), Str("in"), Str("reprehenderit"),
        Str("voluptate"), Str("velit"), Str("esse"), Str("cillum"), Str("fugiat"),
        Str("nulla"), Str("pariatur"), Str("excepteur"), Str("sint"),
        Str("occaecat"), Str("cupidatat"), Str("non"), Str("proident"), Str("sunt"),
        Str("culpa"), Str("qui"), Str("officia"), Str("deserunt"), Str("mollit"),
        Str("anim"), Str("id"), Str("est"), Str("laborum") >>

\* word.charAt(0).toUpperCase() + word.slice(1)
Capitalize(word) == IF word = <<>> THEN word ELSE <<UpperOf(word[1])>> \o Tail(word)

\* words.map(...) from index i on: the callback counts the words of the
\* sentence, ends it at maxSentence words unless the word is the last, and
\* capitalizes the word that follows before map reads it
RECURSIVE MapWords(_, _, _, _)
MapWords(words, i, sentenceLength, maxSentence) ==
    IF i > Len(words) THEN <<>>
    ELSE IF sentenceLength + 1 >= maxSentence /\ i < Len(words)
    THEN <<words[i] \o Str(".")>>
         \o MapWords([words EXCEPT ![i + 1] = Capitalize(words[i + 1])], i + 1, 0, maxSentence)
    ELSE <<words[i]>> \o MapWords(words, i + 1, sentenceLength + 1, maxSentence)

\* generateLorem(wordCount) for wordCount >= 1
GenerateLorem(wordCount, wordDraws, lengthDraws) ==
    LET drawn == [i \in 1..wordCount |-> LOREM_WORDS[wordDraws[i] + 1]]
        words == [drawn EXCEPT ![1] = Capitalize(drawn[1])]
    IN  Join(MapWords(words, 1, 0, 8 + lengthDraws[1]), Str(" ")) \o Str(".")

MaxWordCount == 24

\* the sentences that MaxWordCount words can hold
MaxSentences == ((MaxWordCount - 1) \div 8) + 1

\* the draws of the words: from some word of the list on, in steps
WordDraws ==
    {[i \in 1..MaxWordCount |-> (start + step * i) % Len(LOREM_WORDS)] :
         start \in {0, Len(LOREM_WORDS) - 3}, step \in {1}}

LengthDraws == [1..MaxSentences -> 0..6]

InitLorem ==
    /\ op = "input"
    /\ ret = <<>>
    /\ env = <<>>
    /\ \E wordCount \in 1..MaxWordCount, wordDraws \in WordDraws, lengthDraws \in LengthDraws :
           arg = [wordCount |-> wordCount, wordDraws |-> wordDraws, lengthDraws |-> lengthDraws]

CallGenerateLorem ==
    /\ op = "input"
    /\ op' = "generateLorem"
    /\ ret' = GenerateLorem(arg.wordCount, arg.wordDraws, arg.lengthDraws)
    /\ UNCHANGED <<arg, env>>

NextLorem == CallGenerateLorem

SpecLorem == InitLorem /\ [][NextLorem]_vars

\* the words of a text, and the places of the words that end a sentence
WordsOf(text) == Split(text, Ch[" "])

SentenceEnds(words) ==
    SelectSeq([i \in 1..Len(words) |-> i], LAMBDA i : EndsWith(words[i], Str(".")))

\* the number of words of the k-th sentence
SentenceLength(ends, k) == ends[k] - (IF k = 1 THEN 0 ELSE ends[k - 1])

\* C19: for every wordCount >= 1 generateLorem returns exactly wordCount words;
\* a sentence break is inserted every 8 to 14 words, the length of each sentence
\* being its own random draw (only the last sentence, which the end of the text
\* closes, can be shorter), and the first word of every sentence is capitalized.
C19_LoremSentences ==
    op = "generateLorem" =>
        LET words == WordsOf(ret)
            ends == SentenceEnds(words)
        IN  /\ Len(words) = arg.wordCount
            /\ ends # <<>> /\ ends[Len(ends)] = Len(words)
            /\ \A k \in 1..Len(ends) :
                   /\ words[ends[k] - SentenceLength(ends, k) + 1][1] \in UpperLetters
                   /\ SentenceLength(ends, k) <= 8 + arg.lengthDraws[k]
                   /\ k < Len(ends) => SentenceLength(ends, k) = 8 + arg.lengthDraws[k]

(***************************************************************************)
(* The language of the interface (I18nProvider).  The environment is       *)
(*   window    whether there is a window (there is none when the component *)
(*             is rendered outside a browser);                             *)
(*   stored    localStorage under I18N_STORAGE_KEY: absent, or a text;     *)
(*   browser   navigator.language;                                         *)
(*   lang      the state of the mounted component, "" when none is         *)
(*             mounted;                                                    *)
(*   pending   whether the effect of the component has yet to run.         *)
(***************************************************************************)

Langs == {"en", "fr", "es"}

NoLang == [present |-> FALSE, s |-> <<>>]

StoredLang(text) == [present |-> TRUE, s |-> text]

DetectInitialLang(window, stored, browser) ==
    IF ~window THEN "fr"
    ELSE IF stored.present /\ stored.s # <<>> /\ \E l \in Langs : stored.s = Str(l)
    THEN CHOOSE l \in Langs : stored.s = Str(l)
    ELSE IF StartsWith(ToLowerCase(browser), Str("fr")) THEN "fr"
    ELSE IF StartsWith(ToLowerCase(browser), Str("es")) THEN "es"
    ELSE "en"

\* what the storage holds when the page is opened
StoredLangs ==
    {NoLang} \cup {StoredLang(Str(text)) : text \in {"en", "fr", "es", "de", "", "EN", "fr-FR"}}

\* navigator.language
BrowserLanguages ==
    {Str(text) : text \in {"fr", "fr-FR", "FR-ca", "es", "es-419", "en", "en-US", "de-DE",
                           "it", "pt-BR", "eo", "ja"}}

\* the page is opened: no component is mounted yet
InitLang ==
    /\ op = "start"
    /\ arg = <<>>
    /\ ret = <<>>
    /\ \E window \in BOOLEAN, stored \in StoredLangs, browser \in BrowserLanguages :
           /\ ~window => stored = NoLang /\ browser = Str("en")
           /\ env = [window |-> window, stored |-> stored, browser |-> browser,
                     lang |-> "", pending |-> FALSE]

\* the first render of I18nProvider: useState(() => detectInitialLang()); its
\* effect is scheduled where effects run
MountI18nProvider ==
    /\ env.lang = ""
    /\ op' = "I18nProvider"
    /\ arg' = <<>>
    /\ ret' = DetectInitialLang(env.window, env.stored, env.browser)
    /\ env' = [env EXCEPT !.lang = DetectInitialLang(env.window, env.stored, env.browser),
                          !.pending = env.window]

\* the effect: window.localStorage.setItem(I18N_STORAGE_KEY, lang)
RunLangEffect ==
    /\ env.pending
    /\ op' = "useEffect"
    /\ arg' = <<>>
    /\ ret' = <<>>
    /\ env' = [env EXCEPT !.stored = StoredLang(Str(env.lang)), !.pending = FALSE]

\* setLang(next): the effect runs again when the language has changed
SetLang ==
    /\ env.lang # ""
    /\ env.window
    /\ \E next \in Langs :
           /\ op' = "setLang"
           /\ arg' = next
           /\ ret' = <<>>
           /\ env' = [env EXCEPT !.lang = next, !.pending = env.pending \/ next # env.lang]

\* the page is opened again: the component is gone, the storage stays
ReloadPage ==
    /\ env.lang # ""
    /\ env.window
    /\ ~env.pending
    /\ op' = "reload"
    /\ arg' = <<>>
    /\ ret' = <<>>
    /\ env' = [env EXCEPT !.lang = ""]

NextLang == MountI18nProvider \/ RunLangEffect \/ SetLang \/ ReloadPage

SpecLang == InitLang /\ [][NextLang]_vars

\* the supported languages a browser language matches
MatchedLangs(browser) == {l \in Langs : StartsWith(ToLowerCase(browser), Str(l))}

\* C20: the initial language is the valid stored preference when one exists,
\* otherwise it is detected from the browser language, with French as the
\* default when the browser language matches none of the three supported
\* languages.
C20_DefaultLanguage ==
    op = "I18nProvider" /\ env.window =>
        IF env.stored.present /\ \E l \in Langs : env.stored.s = Str(l)
        THEN env.stored.s = Str(ret)
        ELSE IF MatchedLangs(env.browser) # {} THEN ret \in MatchedLangs(env.browser)
        ELSE ret = "fr"

(***************************************************************************)
(* The case transformers toUpperCase, toSnakeCase, toKebabCase and         *)
(* toConstantCase.                                                         *)
(***************************************************************************)

AlphaNumerics == Letters \cup Digits

\* input.replace(/([a-z])([A-Z])/g, '$1' + sep + '$2'): a match ends at an
\* uppercase letter, so no match starts where another has ended
SeparateHumps(s, sep) ==
    Flatten([i \in 1..Len(s) |->
                IF i > 1 /\ s[i - 1] \in LowerLetters /\ s[i] \in UpperLetters
                THEN <<sep, s[i]>> ELSE <<s[i]>>])

\* s.replace(/[^a-zA-Z0-9]+/g, sep)
ReplaceNonAlphaNumerics(s, sep) ==
    LET marked == [i \in 1..Len(s) |->
                      IF s[i] \in AlphaNumerics THEN s[i]
                      ELSE IF i = 1 \/ s[i - 1] \in AlphaNumerics THEN sep
                      ELSE -1]
    IN  SelectSeq(marked, LAMBDA c : c # -1)

\* s.replace(/^sep|sep$/g, ''): one separator at the start and one at the end
StripEnds(s, sep) ==
    LET from == IF s # <<>> /\ s[1] = sep THEN 2 ELSE 1
        to   == IF Len(s) >= from /\ s[Len(s)] = sep THEN Len(s) - 1 ELSE Len(s)
    IN  SubSeq(s, from, to)

\* toSnakeCase that leaves the separators at the ends
ToSnakeCaseUnstripped(input) ==
    ToLowerCase(ReplaceNonAlphaNumerics(SeparateHumps(input, Ch["_"]), Ch["_"]))

ToSnakeCase(input) ==
    ToLowerCase(StripEnds(ReplaceNonAlphaNumerics(SeparateHumps(input, Ch["_"]), Ch["_"]), Ch["_"]))

ToKebabCase(input) ==
    ToLowerCase(StripEnds(ReplaceNonAlphaNumerics(SeparateHumps(input, Ch["-"]), Ch["-"]), Ch["-"]))

ToConstantCase(input) == ToUpperCase(ToSnakeCase(input))

MaxCaseLength == 4

\* letters of both cases, a digit, the two separators, a space, and letters
\* outside ASCII, one of them with an uppercase of two letters
CaseAlphabet == {Ch["a"], Ch["B"], Ch["1"], Ch["_"], Ch["-"], Ch[" "], 233, 223}

CaseTexts == UNION {[1..n -> CaseAlphabet] : n \in 0..MaxCaseLength}

InitCase ==
    /\ op = "input"
    /\ arg \in CaseTexts
    /\ ret = <<>>
    /\ env = <<>>

CallToUpperCase ==
    /\ op = "input"
    /\ op' = "toUpperCase"
    /\ ret' = ToUpperCase(arg)
    /\ UNCHANGED <<arg, env>>

CallToUpperCaseAgain ==
    /\ op = "toUpperCase"
    /\ op' = "toUpperCase(toUpperCase)"
    /\ ret' = [first |-> ret, second |-> ToUpperCase(ret)]
    /\ UNCHANGED <<arg, env>>

CallToSnakeCase ==
    /\ op = "input"
    /\ op' = "toSnakeCase"
    /\ ret' = ToSnakeCase(arg)
    /\ UNCHANGED <<arg, env>>

CallToSnakeCaseAgain ==
    /\ op = "toSnakeCase"
    /\ op' = "toSnakeCase(toSnakeCase)"
    /\ ret' = [first |-> ret, second |-> ToSnakeCase(ret)]
    /\ UNCHANGED <<arg, env>>

CallToKebabCase ==
    /\ op = "input"
    /\ op' = "toKebabCase"
    /\ ret' = ToKebabCase(arg)
    /\ UNCHANGED <<arg, env>>

CallToKebabCaseAgain ==
    /\ op = "toKebabCase"
    /\ op' = "toKebabCase(toKebabCase)"
    /\ ret' = [first |-> ret, second |-> ToKebabCase(ret)]
    /\ UNCHANGED <<arg, env>>

CallToConstantCase ==
    /\ op = "input"
    /\ op' = "toConstantCase"
    /\ ret' = [constant |-> ToConstantCase(arg), snake |-> ToSnakeCase(arg)]
    /\ UNCHANGED <<arg, env>>

NextCase ==
    \/ CallToUpperCase \/ CallToUpperCaseAgain
    \/ CallToSnakeCase \/ CallToSnakeCaseAgain
    \/ CallToKebabCase \/ CallToKebabCaseAgain
    \/ CallToConstantCase

SpecCase == InitCase /\ [][NextCase]_vars

\* lowercase letters and digits in groups, one separator between two groups
IsSeparated(s, sep) ==
    /\ \A i \in 1..Len(s) : s[i] \in LowerLetters \cup Digits \cup {sep}
    /\ \A i \in 1..Len(s) : s[i] = sep => i > 1 /\ i < Len(s) /\ s[i + 1] # sep

\* C21: toUpperCase, toSnakeCase and toKebabCase applied twice give what they
\* give applied once; the output of toSnakeCase and of toKebabCase has only
\* lowercase letters, digits and single separators, none at the start and none
\* at the end; toConstantCase(x) is the uppercase of toSnakeCase(x).
C21_CaseTransformIdempotence ==
    /\ op \in {"toUpperCase(toUpperCase)", "toSnakeCase(toSnakeCase)", "toKebabCase(toKebabCase)"} =>
           ret.second = ret.first
    /\ op = "toSnakeCase" => IsSeparated(ret, Ch["_"])
    /\ op = "toKebabCase" => IsSeparated(ret, Ch["-"])
    /\ op = "toConstantCase" =>
           /\ Len(ret.constant) = Len(ret.snake)
           /\ \A i \in 1..Len(ret.snake) : ret.constant[i] = UpperOf(ret.snake[i])

\* a text with a hump, separators at both ends and a run of them inside
C21_Witness_HumpsAndRuns ==
    /\ op = "toSnakeCase(toSnakeCase)"
    /\ arg = Str("_aB-")
    /\ ret.first = Str("a_b")
    /\ ret.second = Str("a_b")

(***************************************************************************)
(* colorToFormats on the hex texts and the rgb text of one colour.         *)
(***************************************************************************)

\* one channel takes every value; the two others take the ends of the range
\* and values with a digit and with letters
EdgeChannels == {0, 10, 187, 255}

HexColours ==
    {c \in [r : 0..255, g : EdgeChannels, b : EdgeChannels]
           \cup [r : EdgeChannels, g : 0..255, b : EdgeChannels]
           \cup [r : EdgeChannels, g : EdgeChannels, b : 0..255] : TRUE}

\* the letters of a hex text: all lowercase, all uppercase, or one in two
LetterCases == {"lower", "upper", "odd", "even"}

InCase(hex, case) ==
    [i \in 1..Len(hex) |->
        IF case = "upper" \/ (case = "odd" /\ i % 2 = 1) \/ (case = "even" /\ i % 2 = 0)
        THEN UpperOf(hex[i]) ELSE hex[i]]

TwoHexDigits(n) == <<HexDigitChars[(n \div 16) + 1], HexDigitChars[(n % 16) + 1]>>

\* '#RRGGBB'
LongHexText(c, case) ==
    <<Ch["#"]>> \o InCase(TwoHexDigits(c.r) \o TwoHexDigits(c.g) \o TwoHexDigits(c.b), case)

IsDoubled(c) == c.r % 17 = 0 /\ c.g % 17 = 0 /\ c.b % 17 = 0

\* '#RGB', for a colour whose channels have twice the same digit
ShortHexText(c, case) ==
    <<Ch["#"]>> \o InCase(<<HexDigitChars[(c.r \div 17) + 1], HexDigitChars[(c.g \div 17) + 1],
                            HexDigitChars[(c.b \div 17) + 1]>>, case)

\* 'rgb(r,g,b)'
RgbText(c) ==
    Str("rgb(") \o IntToString(c.r) \o Str(",") \o IntToString(c.g) \o Str(",")
    \o IntToString(c.b) \o Str(")")

InitHexColor ==
    /\ op = "input"
    /\ arg \in [colour : HexColours, case : LetterCases]
    /\ ret = <<>>
    /\ env = <<>>

CallColorToFormatsOfLongHex ==
    /\ op = "input"
    /\ op' = "colorToFormats(#RRGGBB)"
    /\ ret' \in ColorToFormats(LongHexText(arg.colour, arg.case))
    /\ UNCHANGED <<arg, env>>

CallColorToFormatsOfShortHex ==
    /\ op = "input" /\ IsDoubled(arg.colour)
    /\ op' = "colorToFormats(#RGB)"
    /\ ret' \in ColorToFormats(ShortHexText(arg.colour, arg.case))
    /\ UNCHANGED <<arg, env>>

CallColorToFormatsOfRgb ==
    /\ op = "input"
    /\ op' = "colorToFormats(rgb)"
    /\ ret' \in ColorToFormats(RgbText(arg.colour))
    /\ UNCHANGED <<arg, env>>

NextHexColor ==
    \/ CallColorToFormatsOfLongHex
    \/ CallColorToFormatsOfShortHex
    \/ CallColorToFormatsOfRgb

SpecHexColor == InitHexColor /\ [][NextHexColor]_vars

\* C22: for channels r, g, b in 0..255, colorToFormats of '#RRGGBB' in any
\* letter case, of 'rgb(r,g,b)' and, where every channel has twice the same
\* digit, of '#RGB', all return as hex '#' and the two lowercase hex digits of
\* each channel.
C22_SameHexFromEveryForm ==
    op \in {"colorToFormats(#RRGGBB)", "colorToFormats(#RGB)", "colorToFormats(rgb)"} =>
        /\ ret.hit
        /\ ret.hex = <<Ch["#"]>> \o TwoHexDigits(arg.colour.r) \o TwoHexDigits(arg.colour.g)
                     \o TwoHexDigits(arg.colour.b)

\* '#Ab0' is read as '#aabb00'
C22_Witness_ShortMixedCase ==
    /\ op = "colorToFormats(#RGB)"
    /\ arg.colour = [r |-> 170, g |-> 187, b |-> 0]
    /\ arg.case = "odd"
    /\ ret.hex = Str("#aabb00")

(***************************************************************************)
(* A caller that classifies a token with detect and hands the raw text of  *)
(* the result to parseJwt.                                                 *)
(***************************************************************************)

JwtCallTimes == {0, MaxClock}

InitJwtCaller ==
    /\ op = "input"
    /\ arg \in {Shown(JStr(token)) @@ [now |-> now] :
                   token \in JwtExpiryTokens, now \in JwtCallTimes}
    /\ ret = <<>>
    /\ env = <<>>

CallDetectOfToken ==
    /\ op = "input"
    /\ op' = "detect"
    /\ ret' = Detect(arg.value)
    /\ UNCHANGED <<arg, env>>

\* the transformer of the type 'jwt' on the raw text of the result
CallParseJwtOfDetected ==
    /\ op = "detect" /\ ret.type = "jwt"
    /\ op' = "parseJwt(detect)"
    /\ ret' = [detected |-> ret, jwt |-> ParseJwt(ret.raw, arg.now)]
    /\ UNCHANGED <<arg, env>>

NextJwtCaller == CallDetectOfToken \/ CallParseJwtOfDetected

SpecJwtCaller == InitJwtCaller /\ [][NextJwtCaller]_vars

\* C23: for every input that detect classifies as 'jwt', whatever JSON value
\* its payload segment decodes to, parseJwt of the raw text returns a result
\* that is not null and has the header, the payload and the signature of
\* detect's parsed field.
C23_ParseJwtAgreesWithDetect ==
    op = "parseJwt(detect)" =>
        /\ ret.jwt.hit
        /\ ret.jwt.header = ret.detected.parsed.header
        /\ ret.jwt.payload = ret.detected.parsed.payload
        /\ ret.jwt.signature = ret.detected.parsed.signature

(***************************************************************************)
(* A caller that classifies a text with detect and hands the raw text of   *)
(* a 'timestamp' result to epochToHuman.                                   *)
(***************************************************************************)

\* numbers around the limits of detectTimestamp and of 10 and 13 digits
EpochNumbers ==
    {Str(n) : n \in {"0", "1", "10", "999999999", "1000000000", "1700000000", "4102444800",
                     "4102444801", "9999999999", "10000000000", "999999999999",
                     "1000000000000", "1700000000000", "4102444800000", "4102444800001",
                     "9999999999999"}}

\* the widths of EPOCH_REGEX
EpochWidths == 10..13

\* a number written with zeros in front, to a width
ZeroPadded(digits, width) == [i \in 1..(width - Len(digits)) |-> Ch["0"]] \o digits

EpochTexts ==
    {before \o ZeroPadded(p[1], p[2]) \o after :
        p \in {p \in EpochNumbers \X EpochWidths : p[2] >= Len(p[1])},
        before \in {<<>>, Str(" ")}, after \in {<<>>, Str("\n")}}

InitTimeCaller ==
    /\ op = "input"
    /\ ret = <<>>
    /\ arg \in {Shown(JStr(text)) : text \in EpochTexts}
    /\ env \in {[now |-> now] : now \in ClockTimes}

CallDetectOfTime ==
    /\ op = "input"
    /\ op' = "detect"
    /\ ret' = Detect(arg.value)
    /\ UNCHANGED <<arg, env>>

\* the transformer of the type 'timestamp' on the raw text of the result
CallEpochToHumanOfDetected ==
    /\ op = "detect" /\ ret.type = "timestamp"
    /\ op' = "epochToHuman(detect)"
    /\ ret' = [detected |-> ret, formats |-> EpochToHuman(ret.raw, env.now)]
    /\ UNCHANGED <<arg, env>>

NextTimeCaller == CallDetectOfTime \/ CallEpochToHumanOfDetected

SpecTimeCaller == InitTimeCaller /\ [][NextTimeCaller]_vars

\* C24: for every input that detect classifies as 'timestamp', texts of 10 and
\* of 13 digits that start with zeros included, epochToHuman of the raw text
\* returns as unixMs the milliseconds of detect's parsed field.
C24_EpochToHumanAgreesWithDetect ==
    op = "epochToHuman(detect)" =>
        /\ ~ret.formats.threw
        /\ ret.formats.unixMs = Number(FALSE, ret.detected.parsed)

(***************************************************************************)
(* The page: the state of AlchemyPage (type, data, file), the value of     *)
(* the textarea of OmniInput, the file reads under way and the stored      *)
(* history.  The type null is written "".                                  *)
(***************************************************************************)

NoFile == [none |-> TRUE]

NoType == ""

\* the files a user drops or pastes: two of text, one image
PageTextFiles == {File("text/plain", "a.txt", "[1]"), File("", "notes", "hello")}

PageImageFiles == {File("image/png", "pic.png", "PNG")}

\* what a user leaves in the textarea after an edit
TypedTexts == {Str(""), Str(" "), Str("hello"), Str("#FF6B35")}

\* EXAMPLE_INPUTS, the example shown
ExampleTexts == {Str("#FF6B35")}

\* the links a page is opened from: none, and links carrying a text and a type
SharedTexts == {Str(""), Str("hello"), Str("#FF6B35")}

SharedLinkData == {ShareData(text, type) : text \in SharedTexts, type \in {"", "json", "image"}}

PageSearches ==
    {<<>>} \cup {SearchOf(GenerateShareLink(d, PageOrigin, PagePathname).v.s) : d \in SharedLinkData}

\* file reads under way at one time
MaxPendingReads == 2

\* the clock and the random draw of addToHistory, and the room of the storage
PageClock == 0

PageRandom == 0

PageQuota == 2 * MAX_ITEMS

\* addToHistory(raw, type) on the storage of the page e
PageAddToHistory(e, raw, type) ==
    CHOOSE next \in {[page EXCEPT !.storage = call.storage] :
                         page \in {e},
                         call \in {AddToHistory(e.storage, raw, type, PageClock, PageRandom,
                                                PageClock, PageQuota)}} : TRUE

\* the texts the page meets
PageTexts ==
    TypedTexts \cup ExampleTexts \cup SharedTexts \cup {file.contents : file \in PageTextFiles}

\* detect on each of them
PageDetect == [text \in PageTexts |-> Detect(JStr(text))]

\* handleTextInput; result is what detect(text) returns
HandleTextInput(e, text, result) ==
    PageAddToHistory([e EXCEPT !.type = result.type, !.data = text, !.file = NoFile],
                     text, result.type)

\* the smallest number no read under way has
FreeRead(e) == CHOOSE n \in 1..(Len(e.reads) + 1) :
                   /\ \A i \in 1..Len(e.reads) : e.reads[i].id # n
                   /\ \A m \in 1..(n - 1) : \E i \in 1..Len(e.reads) : e.reads[i].id = m

\* new FileReader() ... reader.readAsText(file), in the component by
StartRead(e, file, by) ==
    [e EXCEPT !.reads = Append(e.reads, [id |-> FreeRead(e), file |-> file, by |-> by])]

\* handleFileInput
HandleFileInput(e, file) ==
    IF DetectFileType(file) = "image"
    THEN PageAddToHistory([e EXCEPT !.type = "image", !.data = <<>>, !.file = file],
                          file.name, "image")
    ELSE StartRead(e, file, "AlchemyPage")

\* DetectedType
DetectedTypes ==
    {"json", "color", "timestamp", "html", "image", "css", "javascript", "jwt", "base64",
     "url", "number", "uuid", "text"}

\* shared.type as DetectedType: the name of the type a link carries; the cast
\* tests nothing, and a name that is no type is kept as "unknown"
AsDetectedType(s) ==
    IF \E t \in DetectedTypes : Str(t) = s THEN CHOOSE t \in DetectedTypes : Str(t) = s
    ELSE "unknown"

\* shared.text of the value parseShareLink returns
SharedText(shared) == GetProp(shared, Str("text")).v

\* the effect of AlchemyPage on mount, its state updates taken together;
\* shared is what parseShareLink returns and result what detect(shared.text)
\* returns
ShareLinkEffect(e, shared, result) ==
    LET Set(text, type) ==
            [e EXCEPT !.type = IF Truthy(type) THEN AsDetectedType(type.s) ELSE NoType,
                      !.data = text.s, !.file = NoFile]
        Loaded(text, type) ==
            IF Truthy(text)
            THEN PageAddToHistory([Set(text, type) EXCEPT !.type = result.type],
                                  text.s, result.type)
            ELSE Set(text, type)
    IN  IF ~Truthy(shared) THEN e
        ELSE Loaded(SharedText(shared), GetProp(shared, Str("type")).v)

InitPage ==
    /\ op = "start"
    /\ arg = <<>>
    /\ ret = <<>>
    /\ \E search \in PageSearches :
           env = [type |-> NoType, data |-> <<>>, file |-> NoFile, value |-> <<>>,
                  reads |-> <<>>, storage |-> NoItems, search |-> search,
                  latest |-> [kind |-> "none"]]

\* useEffect(..., []) of AlchemyPage; clearShareFromUrl takes the link away
MountPage(detect) ==
    /\ op = "start"
    /\ op' = "mount"
    /\ \E shared \in {ParseShareLink(env.search).v} :
         \E result \in {IF Truthy(shared) THEN detect[SharedText(shared).s] ELSE NoResult} :
           env' = [ShareLinkEffect(env, shared, result) EXCEPT !.search = <<>>]
    /\ UNCHANGED <<arg, ret>>

\* handleChange of OmniInput
HandleChange(detect) ==
    /\ op # "start"
    /\ \E text \in TypedTexts :
         \E result \in {detect[text]} :
           /\ text # env.value
           /\ op' = "handleChange"
           /\ arg' = text
           /\ env' = IF Trim(text) # <<>>
                     THEN [HandleTextInput([env EXCEPT !.value = text], text, result)
                              EXCEPT !.latest = [kind |-> "text", text |-> text]]
                     ELSE [env EXCEPT !.value = text]
    /\ UNCHANGED ret

\* handleExampleClick of OmniInput; the example shows with no result and no value
HandleExampleClick(detect) ==
    /\ op # "start"
    /\ env.type = NoType /\ env.value = <<>>
    /\ \E text \in ExampleTexts :
         \E result \in {detect[text]} :
           /\ op' = "handleExampleClick"
           /\ arg' = text
           /\ env' = [HandleTextInput([env EXCEPT !.value = text], text, result)
                         EXCEPT !.latest = [kind |-> "text", text |-> text]]
    /\ UNCHANGED ret

\* handleDrop of OmniInput
HandleDrop ==
    /\ op # "start"
    /\ \E file \in PageTextFiles \cup PageImageFiles :
           /\ op' = "handleDrop"
           /\ arg' = file
           /\ IF StartsWith(file.type, Str("image/"))
              THEN env' = [HandleFileInput(env, file)
                              EXCEPT !.latest = [kind |-> "image", file |-> file]]
              ELSE /\ Len(env.reads) < MaxPendingReads
                   /\ env' = [StartRead(env, file, "OmniInput")
                                 EXCEPT !.latest = [kind |-> "read", id |-> FreeRead(env),
                                                    file |-> file]]
    /\ UNCHANGED ret

\* handlePaste of OmniInput, for an image on the clipboard
HandlePaste ==
    /\ op # "start"
    /\ \E file \in PageImageFiles :
           /\ op' = "handlePaste"
           /\ arg' = file
           /\ env' = [HandleFileInput(env, file)
                         EXCEPT !.latest = [kind |-> "image", file |-> file]]
    /\ UNCHANGED ret

\* reader.onload: of the reads under way any one may end first
FileReaderLoads(detect) ==
    /\ \E i \in 1..Len(env.reads) :
         \E read \in {env.reads[i]} :
           \E result \in {detect[read.file.contents]} :
             LET Rest(e) == [e EXCEPT !.reads = SubSeq(e.reads, 1, i - 1)
                                               \o SubSeq(e.reads, i + 1, Len(e.reads))]
             IN  /\ op' = "onload"
                 /\ arg' = read
                 /\ env' = IF read.by = "OmniInput"
                           THEN HandleTextInput([Rest(env) EXCEPT !.value = read.file.contents],
                                                read.file.contents, result)
                           ELSE HandleTextInput(Rest(env), read.file.contents, result)
    /\ UNCHANGED ret

\* handleClear of OmniInput and of AlchemyPage; the button shows with a result
HandleClear ==
    /\ op # "start"
    /\ env.type # NoType
    /\ op' = "handleClear"
    /\ arg' = <<>>
    /\ env' = [env EXCEPT !.value = <<>>, !.type = NoType, !.data = <<>>, !.file = NoFile,
                          !.latest = [kind |-> "clear"]]
    /\ UNCHANGED ret

\* detect is the function of the detector library, the same in every handler
NextPage ==
    \E detect \in {PageDetect} :
        \/ MountPage(detect)
        \/ HandleChange(detect)
        \/ HandleExampleClick(detect)
        \/ HandleDrop
        \/ HandlePaste
        \/ FileReaderLoads(detect)
        \/ HandleClear

SpecPage == InitPage /\ [][NextPage]_vars

ReadUnderWay(id) == \E i \in 1..Len(env.reads) : env.reads[i].id = id

\* the page shows the text: its state and the head of the history
ShowsText(text) ==
    /\ env.data = text
    /\ env.type = Detect(JStr(text)).type
    /\ env.file = NoFile
    /\ GetHistory(env.storage) # <<>>
    /\ GetHistory(env.storage)[1].raw = SliceRaw(text)

\* C25: after any interleaving of edits, example clicks, drops, pastes and
\* Clear, the page shows what the user's latest action asked for: the text
\* typed, the image given, the contents of the file dropped once it is read,
\* nothing after Clear; a read that ends after a later action changes neither
\* the state nor the head of the history.
C25_LatestInputWins ==
    /\ env.latest.kind = "text" => ShowsText(env.latest.text)
    /\ env.latest.kind = "image" =>
           /\ env.type = "image" /\ env.file = env.latest.file
           /\ GetHistory(env.storage)[1].raw = env.latest.file.name
    /\ env.latest.kind = "read" /\ ~ReadUnderWay(env.latest.id) =>
           ShowsText(env.latest.file.contents)
    /\ env.latest.kind = "clear" => env.type = NoType

\* C26: whenever a text result is shown, the data of the page is the content
\* of the textarea and the type is the type detect gives that data.
C26_ResultMatchesInput ==
    (op # "start" /\ env.type \notin {NoType, "image"}) =>
        /\ env.data = env.value
        /\ env.type = Detect(JStr(env.data)).type

\* C27: the type is 'image' exactly when the page holds a file.
C27_ImageExactlyWithFile ==
    op # "start" => (env.type = "image" <=> env.file # NoFile)

(***************************************************************************)
(* addToHistory on contents that meet again: the same text under two       *)
(* types, and texts that are the same up to MAX_RAW_LENGTH characters.     *)
(***************************************************************************)

LongestRaw == Repeat(Ch["x"], MAX_RAW_LENGTH)

\* what the page hands to addToHistory: a text with the type detect gives it,
\* the name of an image with 'image'
RepeatedPastes ==
    { [raw |-> Str("[1]"), type |-> "json"],
      [raw |-> Str("pic.png"), type |-> "image"],
      [raw |-> Str("pic.png"), type |-> "text"],
      [raw |-> LongestRaw, type |-> "text"],
      [raw |-> LongestRaw \o Str("a"), type |-> "text"],
      [raw |-> LongestRaw \o Str("<b>"), type |-> "html"] }

\* the room of the storage: one item, or all of them
RepeatedQuotas == {1, MAX_ITEMS}

InitRepeated ==
    /\ op = "start"
    /\ arg = <<>>
    /\ ret = <<>>
    /\ \E quota \in RepeatedQuotas :
           env = [storage |-> NoItems, quota |-> quota, writesOk |-> TRUE, readded |-> FALSE]

\* addToHistory(raw, type); readded tells whether the content was stored already
AddRepeated ==
    \E paste \in RepeatedPastes, random \in RandomSuffixes, time \in HistoryTimes :
      \E call \in {AddToHistory(env.storage, paste.raw, paste.type, time, random, time,
                                env.quota)} :
        /\ op' = "addToHistory"
        /\ arg' = paste
        /\ ret' = call.ret
        /\ env' = [storage |-> call.storage, quota |-> env.quota, writesOk |-> call.written,
                   readded |-> \E i \in 1..Len(GetHistory(env.storage)) :
                                   GetHistory(env.storage)[i].raw = SliceRaw(paste.raw)]

NextRepeated == AddRepeated

SpecRepeated == InitRepeated /\ [][NextRepeated]_vars

\* no two items of the list have the same raw content
UniqueRaws(history) ==
    \A i, j \in 1..Len(history) : i # j => history[i].raw # history[j].raw

\* new is old with its item i moved to the front, its id and content kept
MovedToFront(old, i, new) ==
    /\ Len(new) = Len(old)
    /\ new[1].id = old[i].id
    /\ new[1].raw = old[i].raw
    /\ Tail(new) = SubSeq(old, 1, i - 1) \o SubSeq(old, i + 1, Len(old))

\* C28: after any sequence of addToHistory calls no two stored items have the
\* same raw content, compared on its first MAX_RAW_LENGTH characters; a call
\* with a content that is stored already makes no new item: it moves the item
\* to the head, with its id, and leaves the others in their order.
C28_HistoryUniqueness ==
    [][op' = "addToHistory" =>
          /\ UniqueRaws(GetHistory(env'.storage))
          /\ (env'.writesOk /\ FindIndex(GetHistory(env.storage), SliceRaw(arg'.raw)) # 0) =>
                 MovedToFront(GetHistory(env.storage),
                              FindIndex(GetHistory(env.storage), SliceRaw(arg'.raw)),
                              GetHistory(env'.storage))]_vars

\* a text longer than MAX_RAW_LENGTH meets the item of another text with the
\* same first characters, which is neither the first nor the last of the list
C28_Witness_LongRawMoved ==
    /\ op = "addToHistory"
    /\ env.readded /\ env.writesOk
    /\ arg.raw = LongestRaw \o Str("a")
    /\ Len(GetHistory(env.storage)) = 3
    /\ ret.raw = LongestRaw
    /\ ret.type = "html"
    /\ GetHistory(env.storage)[1] = ret

\* C29: after addToHistory(raw, type) the head of the stored history, which is
\* the item returned, has the type of the call, also when the content was
\* stored before under another type.
C29_HeadHasTypeOfCall ==
    (op = "addToHistory" /\ env.writesOk) =>
        /\ GetHistory(env.storage)[1] = ret
        /\ ret.type = arg.type

(***************************************************************************)
(* The compressed-size preview of ImageResult: the quality of the slider,  *)
(* the timeout of the effect, the compressions under way and the size      *)
(* shown.                                                                  *)
(***************************************************************************)

\* the quality the component starts with
InitialQuality == 80

\* positions of the slider
Qualities == {10, InitialQuality, 100}

\* moves of the slider
MaxQualityChanges == 3

NoTimeout == [set |-> FALSE]

NoSize == [known |-> FALSE]

\* blob.size of the image at a quality: some number that the quality decides
SizeAt(quality) == [known |-> TRUE, of |-> quality]

\* the effect on [img, quality]: the cleanup of the run before clears its
\* timeout; without an image the effect returns, with one it sets a timeout
\* whose callback holds the quality of this run
RunSizeEffect(e) ==
    [e EXCEPT !.timeout = IF e.img THEN [set |-> TRUE, quality |-> e.quality] ELSE NoTimeout]

InitImage ==
    /\ op = "start"
    /\ arg = [n |-> 0, quality |-> InitialQuality]
    /\ ret = <<>>
    /\ env = [img |-> FALSE, quality |-> InitialQuality, timeout |-> NoTimeout,
              running |-> {}, started |-> 0, compressedSize |-> NoSize, shown |-> 0,
              changes |-> 0]

\* loadImage resolves: setImg(loadedImg), and the effect runs
ImageLoads ==
    /\ ~env.img
    /\ op' = "setImg"
    /\ arg' = [n |-> 0, quality |-> env.quality]
    /\ env' = RunSizeEffect([env EXCEPT !.img = TRUE])
    /\ UNCHANGED ret

\* onChange of the slider: setQuality, and the effect runs
SetQuality ==
    /\ env.changes < MaxQualityChanges
    /\ \E quality \in Qualities \ {env.quality} :
           /\ op' = "setQuality"
           /\ arg' = [n |-> 0, quality |-> quality]
           /\ env' = RunSizeEffect([env EXCEPT !.quality = quality, !.changes = @ + 1])
    /\ UNCHANGED ret

\* the timeout fires: updateSize calls compressImage, which waits for toBlob
UpdateSizeStarts ==
    /\ env.timeout.set
    /\ op' = "updateSize"
    /\ arg' = [n |-> env.started + 1, quality |-> env.timeout.quality]
    /\ env' = [env EXCEPT !.timeout = NoTimeout,
                          !.started = @ + 1,
                          !.running = @ \cup {[n |-> env.started + 1,
                                               quality |-> env.timeout.quality]}]
    /\ UNCHANGED ret

\* toBlob calls back for one of the compressions under way, in whatever order
\* the encodings end: setCompressedSize(size)
CompressionEnds ==
    /\ \E job \in env.running :
           /\ op' = "setCompressedSize"
           /\ arg' = job
           /\ env' = [env EXCEPT !.running = @ \ {job},
                                 !.compressedSize = SizeAt(job.quality),
                                 !.shown = job.n]
    /\ UNCHANGED ret

NextImage == ImageLoads \/ SetQuality \/ UpdateSizeStarts \/ CompressionEnds

SpecImage == InitImage /\ [][NextImage]_vars

\* the image loads, a timeout that is set and not cleared fires, and a toBlob
\* under way calls back; the user is free to leave the slider alone
SpecImageFair ==
    /\ SpecImage
    /\ WF_vars(ImageLoads)
    /\ WF_vars(UpdateSizeStarts)
    /\ WF_vars(CompressionEnds)

\* C30: once the slider stops, compressedSize is in the end the size at the
\* final quality and stays so; the end of a compression started for an earlier
\* quality does not replace the result of one started later.
C30_CompressedSizeConverges ==
    /\ <>[](env.compressedSize = SizeAt(env.quality))
    /\ [][(op' = "setCompressedSize" /\ arg'.n < env.shown) =>
              env'.compressedSize = env.compressedSize]_vars

====
